---- MODULE Spec2Model ----
(***************************************************************************)
(* Model of the recommendation engine of personalized-learning-path        *)
(* (backend/app/services/recommender.py, class HybridRecommender).         *)
(*                                                                         *)
(* Text is a sequence of one-character strings, so that lower(), strip(),  *)
(* split(',') and the vectorizer's tokenizer are computed, not assumed.    *)
(* Real numbers are scaled integers: vector entries, similarities and      *)
(* cosine distances are in 1/1000, match_score is in 1/10 of a point, idf  *)
(* weights are in 1/100, pace multipliers are in 1/10.                     *)
(***************************************************************************)
EXTENDS Integers, Sequences, FiniteSets, TLC

VARIABLES engine, tie_order, call, outcome, built, earlier, workers,
          loads, served, snapshots, paths, path_items

vars == <<engine, tie_order, call, outcome, built, earlier, workers,
          loads, served, snapshots, paths, path_items>>

(***************************************************************************)
(* Bounds of the model.                                                    *)
(***************************************************************************)
MaxRoles == 3

MaxSkills == 2

MaxThreads == 2

MaxRequests == 4

(***************************************************************************)
(* Text helpers: Python str.lower, str.strip, str.split, str.join, and     *)
(* f-string formatting of an int.                                          *)
(***************************************************************************)
Whitespace == {" ", "\t"}

LowerChar_swapcase(c) ==
  CASE c = "P" -> "p"
    [] c = "p" -> "P"
    [] c = "S" -> "s"
    [] c = "s" -> "S"
    [] OTHER -> c

LowerChar(c) ==
  CASE c = "P" -> "p"
    [] c = "Y" -> "y"
    [] c = "S" -> "s"
    [] c = "Q" -> "q"
    [] c = "L" -> "l"
    [] c = "D" -> "d"
    [] c = "A" -> "a"
    [] c = "I" -> "i"
    [] c = "T" -> "t"
    [] c = "M" -> "m"
    [] c = "N" -> "n"
    [] c = "B" -> "b"
    [] c = "C" -> "c"
    [] OTHER -> c

Lower(s) == [i \in 1..Len(s) |-> LowerChar(s[i])]

RECURSIVE LStrip(_)
LStrip(s) ==
  IF s # <<>> /\ Head(s) \in Whitespace THEN LStrip(Tail(s)) ELSE s

RECURSIVE RStrip(_)
RStrip(s) ==
  IF s # <<>> /\ s[Len(s)] \in Whitespace
  THEN RStrip(SubSeq(s, 1, Len(s) - 1))
  ELSE s

Strip(s) == RStrip(LStrip(s))

RECURSIVE Split(_, _)
Split(s, sep) ==
  IF \E i \in 1..Len(s) : s[i] = sep
  THEN LET i == CHOOSE k \in 1..Len(s) :
                  s[k] = sep /\ \A j \in 1..(k - 1) : s[j] # sep
       IN  <<SubSeq(s, 1, i - 1)>> \o Split(SubSeq(s, i + 1, Len(s)), sep)
  ELSE <<s>>

RECURSIVE Join(_, _)
Join(sep, parts) ==
  IF parts = <<>> THEN <<>>
  ELSE IF Len(parts) = 1 THEN parts[1]
  ELSE parts[1] \o sep \o Join(sep, Tail(parts))

Digit(d) == <<"0", "1", "2", "3", "4", "5", "6", "7", "8", "9">>[d + 1]

RECURSIVE IntToText(_)
IntToText(n) ==
  IF n < 0 THEN <<"-">> \o IntToText(0 - n)
  ELSE IF n < 10 THEN <<Digit(n)>>
  ELSE IntToText(n \div 10) \o <<Digit(n % 10)>>

(***************************************************************************)
(* HybridRecommender._normalize_skills                                     *)
(***************************************************************************)
_normalize_skills_drops_blanks(skills) ==
  LET Kept(text) == text # <<>>
  IN  SelectSeq([i \in 1..Len(skills) |-> Strip(Lower(skills[i]))], Kept)

_normalize_skills(skills) ==
  [i \in 1..Len(skills) |-> Strip(Lower(skills[i]))]

(***************************************************************************)
(* TfidfVectorizer(lowercase=True, stop_words='english'): the analyzer     *)
(* lower-cases, takes the maximal runs of two or more word characters      *)
(* (token_pattern \b\w\w+\b) and drops English stop words; idf is the      *)
(* smoothed ln((1+n)/(1+df)) + 1; rows are L2-normalised.                  *)
(***************************************************************************)
NonWordChars == {" ", "\t", ",", "+", "#", "-", ".", "/"}

StopWords == {<<"i", "t">>, <<"a", "s">>, <<"i", "n">>, <<"a", "n", "d">>}

RECURSIVE WordRuns(_, _)
WordRuns(s, cur) ==
  LET flush == IF cur = <<>> THEN <<>> ELSE <<cur>>
  IN  IF s = <<>> THEN flush
      ELSE IF Head(s) \notin NonWordChars
           THEN WordRuns(Tail(s), Append(cur, Head(s)))
           ELSE flush \o WordRuns(Tail(s), <<>>)

IsToken(t) == Len(t) >= 2 /\ t \notin StopWords

Analyze(text) == SelectSeq(WordRuns(Lower(text), <<>>), IsToken)

TermCount(t, tokens) == Cardinality({i \in 1..Len(tokens) : tokens[i] = t})

\* 100 * ln(k) for k = 1..12
Ln100 == <<0, 69, 110, 139, 161, 179, 195, 208, 220, 230, 240, 248>>

RECURSIVE IsqrtIter(_, _, _)
IsqrtIter(n, lo, hi) ==
  IF lo >= hi THEN lo
  ELSE LET mid == (lo + hi + 1) \div 2
       IN  IF mid * mid <= n THEN IsqrtIter(n, mid, hi)
           ELSE IsqrtIter(n, lo, mid - 1)

Isqrt(n) == IsqrtIter(n, 0, IF n > 46340 THEN 46340 ELSE n)

RECURSIVE SumOver(_, _)
SumOver(S, f) ==
  IF S = {} THEN 0
  ELSE LET x == CHOOSE y \in S : TRUE
       IN  f[x] + SumOver(S \ {x}, f)

\* one L2-normalised tf-idf row, entries in 1/1000
TfidfRow(tokens, vocabulary, idf) ==
  LET raw  == [t \in vocabulary |-> TermCount(t, tokens) * idf[t]]
      norm == Isqrt(SumOver(vocabulary, [t \in vocabulary |-> raw[t] * raw[t]]))
  IN  [t \in vocabulary |-> IF norm = 0 THEN 0 ELSE (raw[t] * 1000) \div norm]

\* vectorizer.fit_transform(skills_data): vocabulary, idf and the matrix
FitVocabulary(docs) ==
  UNION {{docs[i][j] : j \in 1..Len(docs[i])} : i \in 1..Len(docs)}

FitIdf(docs, vocabulary) ==
  [t \in vocabulary |->
     LET df == Cardinality({i \in 1..Len(docs) : TermCount(t, docs[i]) > 0})
     IN  100 + Ln100[Len(docs) + 1] - Ln100[df + 1]]

\* vectorizer.transform([text]) with the frozen vocabulary
Transform(e, text) == TfidfRow(Analyze(text), e.vocabulary, e.idf)

\* cosine distance of two rows in 1/1000, clipped to [0, 2] as sklearn does
CosineDistance(e, u, v) ==
  LET dot == SumOver(e.vocabulary, [t \in e.vocabulary |-> u[t] * v[t]])
      d   == 1000 - (dot \div 1000)
  IN  IF d < 0 THEN 0 ELSE IF d > 2000 THEN 2000 ELSE d

(***************************************************************************)
(* Literal texts of the source.                                            *)
(***************************************************************************)
TxtBuild == 
  <<"B", "u", "i", "l", "d", " ", "f", "u", "n", "d", "a", "m",
  "e", "n", "t", "a", "l", " ", "k", "n", "o", "w", "l", "e",
  "d", "g", "e", " ", "w", "i", "t", "h", " ">>

TxtDeepen == 
  <<"D", "e", "e", "p", "e", "n", " ", "y", "o", "u", "r", " ",
  "e", "x", "p", "e", "r", "t", "i", "s", "e", " ", "w", "i",
  "t", "h", " ">>

TxtSpecialize == 
  <<"S", "p", "e", "c", "i", "a", "l", "i", "z", "e", " ", "w",
  "i", "t", "h", " ">>

TxtCertification == 
  <<" ", "c", "e", "r", "t", "i", "f", "i", "c", "a", "t", "i",
  "o", "n">>

TxtGain == 
  <<"G", "a", "i", "n", " ", "p", "r", "a", "c", "t", "i", "c",
  "a", "l", " ", "e", "x", "p", "e", "r", "i", "e", "n", "c",
  "e", " ", "a", "s", " ", "a", " ">>

TxtInternship == 
  <<" ", "I", "n", "t", "e", "r", "n", "s", "h", "i", "p">>

(***************************************************************************)
(* dict.get(key, default)                                                  *)
(***************************************************************************)
Get(d, key, default) == IF key \in DOMAIN d THEN d[key] ELSE default

Returned(v) == [status |-> "returned", value |-> v]

Raised(err) == [status |-> "raised", error |-> err]

(***************************************************************************)
(* HybridRecommender.__init__, _load_data and _train_model.  A database    *)
(* is either absent or a pair of tables.                                   *)
(***************************************************************************)
NoEngine == [exists |-> FALSE]

target_level == 7

n_neighbors == 3

default_demand_score == 50

_load_data(db) ==
  IF db.present
  THEN Returned([job_roles |-> db.job_roles, nsqf_levels |-> db.nsqf_levels])
  ELSE Raised("OperationalError")

_train_model(job_roles) ==
  IF job_roles = <<>>
  THEN Raised("ValueError")
  ELSE LET skills_data == [i \in 1..Len(job_roles) |-> Lower(job_roles[i].skills)]
           docs        == [i \in 1..Len(job_roles) |-> Analyze(skills_data[i])]
           vocabulary  == FitVocabulary(docs)
           idf         == FitIdf(docs, vocabulary)
       IN  IF vocabulary = {}
           THEN Raised("ValueError")
           ELSE Returned([vocabulary    |-> vocabulary,
                          idf           |-> idf,
                          skills_matrix |-> [i \in 1..Len(docs) |->
                                               TfidfRow(docs[i], vocabulary, idf)],
                          n_neighbors   |-> n_neighbors])

HybridRecommender_keeps_partial(db) ==
  LET loaded == _load_data(db)
  IN  IF loaded.status = "raised" THEN loaded
      ELSE LET trained == _train_model(loaded.value.job_roles)
               fitted  == IF trained.status = "raised"
                          THEN [vocabulary |-> {}, idf |-> <<>>,
                                skills_matrix |-> <<>>, n_neighbors |-> n_neighbors]
                          ELSE trained.value
           IN  Returned([exists        |-> TRUE,
                         job_roles     |-> loaded.value.job_roles,
                         nsqf_levels   |-> loaded.value.nsqf_levels,
                         vocabulary    |-> fitted.vocabulary,
                         idf           |-> fitted.idf,
                         skills_matrix |-> fitted.skills_matrix,
                         n_neighbors   |-> fitted.n_neighbors])

HybridRecommender(db) ==
  LET loaded == _load_data(db)
  IN  IF loaded.status = "raised" THEN loaded
      ELSE LET trained == _train_model(loaded.value.job_roles)
           IN  IF trained.status = "raised" THEN trained
               ELSE Returned([exists        |-> TRUE,
                              job_roles     |-> loaded.value.job_roles,
                              nsqf_levels   |-> loaded.value.nsqf_levels,
                              vocabulary    |-> trained.value.vocabulary,
                              idf           |-> trained.value.idf,
                              skills_matrix |-> trained.value.skills_matrix,
                              n_neighbors   |-> trained.value.n_neighbors])

(***************************************************************************)
(* nn_model.kneighbors(user_vector, n_neighbors=k): the k rows of smallest *)
(* cosine distance, ascending.  The order among rows of equal distance is  *)
(* not specified by the library; ties says which one the build produces.   *)
(***************************************************************************)
kneighbors(e, user_vector, k, ties) ==
  LET n      == Len(e.skills_matrix)
      dist   == [i \in 1..n |-> CosineDistance(e, user_vector, e.skills_matrix[i])]
      Before(i, j) ==
        \/ dist[i] < dist[j]
        \/ dist[i] = dist[j] /\ (IF ties = "first" THEN i < j ELSE i > j)
      rank(i) == Cardinality({j \in 1..n : Before(j, i)})
  IN  IF k > n
      THEN Raised("ValueError")
      ELSE LET indices == [p \in 1..k |-> CHOOSE i \in 1..n : rank(i) = p - 1]
           IN  Returned([indices   |-> indices,
                         distances |-> [p \in 1..k |-> dist[indices[p]]]])

(***************************************************************************)
(* list.sort(key=...) is stable; with reverse=True equal keys keep their   *)
(* original order too.                                                     *)
(***************************************************************************)
LevelOf(row) == row.level

SortByLevel_unsorted(seq) == seq

\* pathway_levels.sort(key=lambda x: x['level'])
SortByLevel(seq) ==
  LET n == Len(seq)
      rank(i) == Cardinality({j \in 1..n :
                    \/ LevelOf(seq[j]) < LevelOf(seq[i])
                    \/ LevelOf(seq[j]) = LevelOf(seq[i]) /\ j < i})
  IN  [p \in 1..n |-> seq[CHOOSE i \in 1..n : rank(i) = p - 1]]

MatchScoreOf_constant(rec) == 0

MatchScoreOf(rec) == rec.match_score

SortByMatchScore_ascending(seq) ==
  LET n == Len(seq)
      rank(i) == Cardinality({j \in 1..n :
                    \/ MatchScoreOf(seq[j]) < MatchScoreOf(seq[i])
                    \/ MatchScoreOf(seq[j]) = MatchScoreOf(seq[i]) /\ j < i})
  IN  [p \in 1..n |-> seq[CHOOSE i \in 1..n : rank(i) = p - 1]]

\* recommendations.sort(key=lambda x: x['match_score'], reverse=True)
SortByMatchScore(seq) ==
  LET n == Len(seq)
      rank(i) == Cardinality({j \in 1..n :
                    \/ MatchScoreOf(seq[j]) > MatchScoreOf(seq[i])
                    \/ MatchScoreOf(seq[j]) = MatchScoreOf(seq[i]) /\ j < i})
  IN  [p \in 1..n |-> seq[CHOOSE i \in 1..n : rank(i) = p - 1]]

(***************************************************************************)
(* HybridRecommender._map_to_nsqf_pathway                                  *)
(***************************************************************************)
_map_to_nsqf_pathway_no_target(e, current_level, target) ==
  LET Above(row) == current_level < row.level
  IN  SortByLevel(SelectSeq(e.nsqf_levels, Above))

_map_to_nsqf_pathway_inclusive(e, current_level, target) ==
  IF current_level > target
  THEN <<>>
  ELSE LET InRange(row) == current_level <= row.level /\ row.level <= target
       IN  SortByLevel(SelectSeq(e.nsqf_levels, InRange))

_map_to_nsqf_pathway(e, current_level, target) ==
  IF current_level >= target
  THEN <<>>
  ELSE LET InRange(row) == current_level < row.level /\ row.level <= target
       IN  SortByLevel(SelectSeq(e.nsqf_levels, InRange))

(***************************************************************************)
(* HybridRecommender._create_learning_pathway                              *)
(***************************************************************************)
PathwayVariant(e, job_role, current_level, variant) ==
  LET nsqf_pathway == _map_to_nsqf_pathway(e, current_level, target_level)
      parts == Split(job_role.suggested_microcredentials, ",")
      microcredentials == [i \in 1..Len(parts) |-> Strip(parts[i])]
      late_level ==
        IF variant = "late_steps_at_learner_level" /\ current_level > target_level
        THEN current_level
        ELSE target_level
      foundational ==
        IF nsqf_pathway # <<>>
        THEN <<[step           |-> "Foundational",
                title          |-> nsqf_pathway[1].qualification,
                description    |-> TxtBuild \o nsqf_pathway[1].qualification,
                duration_weeks |-> 12,
                type           |-> "course",
                level          |-> nsqf_pathway[1].level]>>
        ELSE <<>>
      core ==
        IF Len(nsqf_pathway) > 1
        THEN <<[step           |-> "Core",
                title          |-> nsqf_pathway[Len(nsqf_pathway)].qualification,
                description    |-> TxtDeepen \o nsqf_pathway[Len(nsqf_pathway)].qualification,
                duration_weeks |-> 16,
                type           |-> "course",
                level          |-> nsqf_pathway[Len(nsqf_pathway)].level]>>
        ELSE <<>>
      micro ==
        IF microcredentials # <<>>
        THEN <<[step           |-> "Micro-credential",
                title          |-> microcredentials[1],
                description    |-> TxtSpecialize \o microcredentials[1] \o TxtCertification,
                duration_weeks |-> 8,
                type           |-> "certification",
                level          |-> late_level]>>
        ELSE <<>>
      internship ==
        IF variant = "internship_after_courses" /\ nsqf_pathway = <<>>
        THEN <<>>
        ELSE <<[step           |-> "On-the-job/Internship",
                title          |-> job_role.job_title \o TxtInternship,
                description    |-> TxtGain \o job_role.job_title,
                duration_weeks |-> 12,
                type           |-> "internship",
                level          |-> late_level]>>
  IN  IF variant = "micro_before_core"
      THEN foundational \o micro \o core \o internship
      ELSE foundational \o core \o micro \o internship

_create_learning_pathway_late_steps_at_learner_level(e, job_role, current_level) ==
  PathwayVariant(e, job_role, current_level, "late_steps_at_learner_level")

_create_learning_pathway_internship_after_courses(e, job_role, current_level) ==
  PathwayVariant(e, job_role, current_level, "internship_after_courses")

_create_learning_pathway_micro_before_core(e, job_role, current_level) ==
  PathwayVariant(e, job_role, current_level, "micro_before_core")

_create_learning_pathway(e, job_role, current_level) ==
  LET nsqf_pathway == _map_to_nsqf_pathway(e, current_level, target_level)
      parts == Split(job_role.suggested_microcredentials, ",")
      microcredentials == [i \in 1..Len(parts) |-> Strip(parts[i])]
      foundational ==
        IF nsqf_pathway # <<>> /\ Len(nsqf_pathway) > 0
        THEN <<[step           |-> "Foundational",
                title          |-> nsqf_pathway[1].qualification,
                description    |-> TxtBuild \o nsqf_pathway[1].qualification,
                duration_weeks |-> 12,
                type           |-> "course",
                level          |-> nsqf_pathway[1].level]>>
        ELSE <<>>
      core ==
        IF Len(nsqf_pathway) > 1
        THEN <<[step           |-> "Core",
                title          |-> nsqf_pathway[Len(nsqf_pathway)].qualification,
                description    |-> TxtDeepen \o nsqf_pathway[Len(nsqf_pathway)].qualification,
                duration_weeks |-> 16,
                type           |-> "course",
                level          |-> nsqf_pathway[Len(nsqf_pathway)].level]>>
        ELSE <<>>
      micro ==
        IF microcredentials # <<>>
        THEN <<[step           |-> "Micro-credential",
                title          |-> microcredentials[1],
                description    |-> TxtSpecialize \o microcredentials[1] \o TxtCertification,
                duration_weeks |-> 8,
                type           |-> "certification",
                level          |-> target_level]>>
        ELSE <<>>
      internship ==
        <<[step           |-> "On-the-job/Internship",
           title          |-> job_role.job_title \o TxtInternship,
           description    |-> TxtGain \o job_role.job_title,
           duration_weeks |-> 12,
           type           |-> "internship",
           level          |-> target_level]>>
  IN  foundational \o core \o micro \o internship

(***************************************************************************)
(* HybridRecommender._generate_explanation                                 *)
(***************************************************************************)
_generate_explanation(job_role, skill_overlap, demand_score) ==
  <<"T", "h", "i", "s", " ", "r", "o", "l", "e", " ", "m", "a", "t", "c", "h", "e", "s", " ">> \o IntToText(skill_overlap \div 10) \o <<"%", " ", "o", "f", " ", "y", "o", "u", "r", " ", "e", "x", "i", "s", "t", "i", "n", "g", " ", "s", "k", "i", "l", "l", "s", " ">>
    \o <<"a", "n", "d", " ", "h", "a", "s", " ", "a", " ", "h", "i", "g", "h", " ", "d", "e", "m", "a", "n", "d", " ", "s", "c", "o", "r", "e", " ", "o", "f", " ">> \o IntToText(demand_score) \o <<"/", "1", "0", "0", ".", " ">>
    \o <<"T", "h", "e", " ", "r", "o", "l", "e", " ", "t", "y", "p", "i", "c", "a", "l", "l", "y", " ", "r", "e", "q", "u", "i", "r", "e", "s", " ", "s", "k", "i", "l", "l", "s", " ", "i", "n", ":", " ">> \o job_role.skills \o <<".">>

(***************************************************************************)
(* HybridRecommender.compute_recommendations                               *)
(***************************************************************************)
pace_multiplier_swapped(profile) ==
  LET pace == Get(profile, "learning_pace", "normal")
  IN  CASE pace = "slow"   -> 7
        [] pace = "normal" -> 10
        [] pace = "fast"   -> 13
        [] OTHER           -> 10

pace_multiplier_unknown_as_slow(profile) ==
  LET pace == Get(profile, "learning_pace", "normal")
  IN  CASE pace = "slow"   -> 13
        [] pace = "normal" -> 10
        [] pace = "fast"   -> 7
        [] OTHER           -> 13

\* the pace multiplier in 1/10
pace_multiplier(profile) ==
  LET pace == Get(profile, "learning_pace", "normal")
  IN  CASE pace = "slow"   -> 13
        [] pace = "normal" -> 10
        [] pace = "fast"   -> 7
        [] OTHER           -> 10

ScaleDuration_rounds_up(duration_weeks, multiplier) ==
  (duration_weeks * multiplier + 9) \div 10

\* int(step['duration_weeks'] * pace_multiplier)
ScaleDuration(duration_weeks, multiplier) == (duration_weeks * multiplier) \div 10

combined_score_equal_weights(skill_overlap, demand_score) ==
  skill_overlap * 6 + demand_score * 60

\* (skill_overlap * 0.6) + (demand_score / 100 * 0.4), in 1/10000
combined_score(skill_overlap, demand_score) ==
  skill_overlap * 6 + demand_score * 40

\* round(combined_score * 100, 1), in 1/10
Round1(combined) == (combined + 5) \div 10

\* lines 171-181: normalise the skills, vectorise them and query the index
find_neighbours(e, profile, ties) ==
  LET normalized_skills == _normalize_skills(Get(profile, "prior_skills", <<>>))
  IN  IF normalized_skills = <<>>
      THEN Raised("ValueError")
      ELSE
        LET user_skills_text == Join(<<",", " ">>, normalized_skills)
            user_vector == Transform(e, user_skills_text)
        IN  kneighbors(e, user_vector, 3, ties)

\* SELECT * gives None for a NULL column: the key is in the row dict, so
\* .get returns None and not the default
demand_is_null(job_role) ==
  "demand_score" \in Get(job_role, "null_columns", {})

\* lines 185-219: one iteration of the loop over the neighbours, when
\* demand_score / 100 (line 193) does not raise
build_recommendation(e, profile, idx, distance) ==
  LET job_role      == e.job_roles[idx]
      skill_overlap == 1000 - distance
      demand_score  == Get(job_role, "demand_score", default_demand_score)
      combined      == combined_score(skill_overlap, demand_score)
      pathway       == _create_learning_pathway(
                          e, job_role, Get(profile, "education_level", 1))
      multiplier    == pace_multiplier(profile)
      scaled        == [i \in 1..Len(pathway) |->
                          [pathway[i] EXCEPT !.duration_weeks =
                             ScaleDuration(@, multiplier)]]
  IN  [job_title   |-> job_role.job_title,
       match_score |-> Round1(combined),
       pathway     |-> scaled,
       explanation |-> _generate_explanation(job_role, skill_overlap, demand_score)]

\* lines 221-231: sort the recommendations and attach the profile summary
finish_recommendations(profile, recommendations) ==
  Returned(
    [recommendations |-> SortByMatchScore(recommendations),
     profile |->
       [education_level |-> Get(profile, "education_level", 1),
        skills_count    |->
          Len(_normalize_skills(Get(profile, "prior_skills", <<>>))),
        learning_pace   |-> Get(profile, "learning_pace", "normal")]])

compute_recommendations(e, profile, ties) ==
  LET found == find_neighbours(e, profile, ties)
  IN  IF found.status = "raised"
      THEN found
      ELSE IF \E p \in 1..Len(found.value.indices) :
                demand_is_null(e.job_roles[found.value.indices[p]])
      THEN Raised("TypeError")
      ELSE
        LET recommendations ==
              [p \in 1..Len(found.value.indices) |->
                 build_recommendation(e, profile, found.value.indices[p],
                                      found.value.distances[p])]
        IN  finish_recommendations(profile, recommendations)

\* The engine after a call of compute_recommendations: lines 156-231 assign
\* to no attribute of self and call no mutating method on self.job_roles,
\* self.nsqf_levels, self.vectorizer, self.skills_matrix or self.knn
\* (_map_to_nsqf_pathway sorts a new list, the pace scaling writes to the
\* step dicts created by that call).
engine_after_recommend_reverses_roles(e, profile) ==
  [e EXCEPT !.job_roles = [i \in 1..Len(@) |-> @[Len(@) + 1 - i]]]

engine_after_recommend_rotates_roles(e, profile) ==
  [e EXCEPT !.job_roles = Tail(@) \o <<Head(@)>>]

engine_after_recommend_sorts_levels(e, profile) ==
  [e EXCEPT !.nsqf_levels = SortByLevel(@)]

engine_after_recommend(e, profile) == e

(***************************************************************************)
(* Inputs: the rows a database may hold and the profiles a caller may      *)
(* send.  job_roles and nsqf_levels have no uniqueness or range            *)
(* constraint in the schema, so rows may repeat, levels may come in any    *)
(* order and demand_score may exceed 100.                                  *)
(***************************************************************************)
RolePool ==
  { [job_title |-> <<"D", "A">>, skills |-> <<"p", "y", ",", " ", "s", "q", "l">>, demand_score |-> 0,
     suggested_microcredentials |-> <<"m", "1", ",", " ", "m", "2">>],
    [job_title |-> <<"I", "T">>, skills |-> <<"n", "e", "t">>, demand_score |-> 100,
     suggested_microcredentials |-> <<>>],
    [job_title |-> <<"D", "S">>, skills |-> <<"P", "y", ",", " ", "m", "l">>, demand_score |-> 120,
     suggested_microcredentials |-> <<"m", "l">>] }

Catalogs == UNION {[1..n -> RolePool] : n \in 0..MaxRoles}

NsqfRow(l) ==
  [level |-> l, qualification |-> <<"Q", Digit(l)>>, example_courses |-> <<"c", Digit(l)>>]

NsqfTables ==
  { <<>>,
    <<NsqfRow(6), NsqfRow(5)>>,
    <<NsqfRow(7), NsqfRow(5), NsqfRow(6), NsqfRow(8)>> }

Databases ==
  {[present |-> FALSE]} \cup
  {[present |-> TRUE, job_roles |-> c, nsqf_levels |-> t] :
     c \in Catalogs, t \in NsqfTables}

SkillPool == { <<>>, <<" ">>, <<" ", "P", "y", " ">>, <<"n", "e", "t">> }

SkillLists == UNION {[1..n -> SkillPool] : n \in 0..MaxSkills}

Paces == {"slow", "normal", "fast", "turbo"}

EducationLevels == {5, 7, 8}

Absent == [x \in {} |-> 0]

Optional(key, values) == {Absent} \cup {key :> v : v \in values}

Profiles ==
  { s @@ l @@ p :
      s \in Optional("prior_skills", SkillLists),
      l \in Optional("education_level", EducationLevels),
      p \in Optional("learning_pace", Paces) }

(***************************************************************************)
(* State: engine is the recommender object the caller holds (NoEngine      *)
(* before the first successful construction), tie_order the order in       *)
(* which this build of the library returns equidistant neighbours, call    *)
(* the operation in progress and outcome what it returned or raised.       *)
(* built records the engine as __init__ returned it, earlier a response    *)
(* of the current engine that a caller has kept, with between telling      *)
(* whether the engine has served another profile since.  workers holds     *)
(* the position and the local variables of each thread that is inside      *)
(* compute_recommendations.  In a serving run, loads counts the            *)
(* constructions that have loaded the catalog and fitted the model,        *)
(* served the requests handled, and snapshots is the recommendations       *)
(* table.                                                                  *)
(***************************************************************************)
Idle == [op |-> "idle"]

NoOutcome == [status |-> "none"]

NoEarlier == [kept |-> FALSE]

Threads == 1..MaxThreads

IdleWorker == [pc |-> "idle"]

Init ==
  /\ engine = NoEngine
  /\ tie_order \in {"first", "last"}
  /\ call = Idle
  /\ outcome = NoOutcome
  /\ built = NoEngine
  /\ earlier = NoEarlier
  /\ workers = [t \in Threads |-> IdleWorker]
  /\ loads = 0
  /\ served = 0
  /\ snapshots = <<>>
  /\ paths = <<>>
  /\ path_items = <<>>

\* recommender = HybridRecommender(db_path): the name is bound only when
\* __init__ returns
Construct(db) ==
  /\ call = Idle
  /\ LET r == HybridRecommender(db)
     IN  /\ engine' = IF r.status = "returned" THEN r.value ELSE engine
         /\ built' = IF r.status = "returned" THEN r.value ELSE built
         /\ earlier' = IF r.status = "returned" THEN NoEarlier ELSE earlier
         /\ outcome' = IF r.status = "returned" THEN Returned("engine") ELSE r
  /\ call' = [op |-> "construct", db |-> db]
  /\ UNCHANGED <<tie_order, workers, loads, served, snapshots, paths, path_items>>

\* recommender.compute_recommendations(profile)
Recommend(profile) ==
  /\ call = Idle
  /\ engine.exists
  /\ outcome' = compute_recommendations(engine, profile, tie_order)
  /\ engine' = engine_after_recommend(engine, profile)
  /\ call' = [op |-> "recommend", profile |-> profile]
  /\ UNCHANGED <<tie_order, built, earlier, workers, loads, served, snapshots, paths, path_items>>

\* the caller has consumed the response; nothing of the call is retained
Finish ==
  /\ call # Idle
  /\ call' = Idle
  /\ outcome' = NoOutcome
  /\ earlier' = IF earlier.kept /\ call.op = "recommend" /\ call.profile # earlier.profile
                THEN [earlier EXCEPT !.between = TRUE]
                ELSE earlier
  /\ UNCHANGED <<engine, tie_order, built, workers, loads, served, snapshots, paths, path_items>>

Next ==
  \/ \E db \in Databases : Construct(db)
  \/ \E profile \in Profiles : Recommend(profile)
  \/ Finish

Spec == Init /\ [][Next]_vars

(***************************************************************************)
(* Repeated calls: the caller keeps one response of the engine             *)
(* (rec1 = recommender.compute_recommendations(p)), goes on calling the    *)
(* same engine with any profiles, and compares a later response for the    *)
(* same profile with the one kept.                                         *)
(***************************************************************************)
\* catalogs of n_neighbors different roles, so that every query returns
RepeatDatabases ==
  {db \in Databases :
     /\ db.present
     /\ Len(db.job_roles) = n_neighbors
     /\ \A i, j \in 1..Len(db.job_roles) :
          i # j => db.job_roles[i] # db.job_roles[j]}

RepeatProfiles ==
  { s @@ l @@ p :
      s \in Optional("prior_skills", {<<<<" ", "P", "y", " ">>>>, <<<<"n", "e", "t">>>>}),
      l \in Optional("education_level", {5}),
      p \in Optional("learning_pace", {"fast"}) }

\* the caller keeps the response of the call that has just returned or raised
Keep ==
  /\ call.op = "recommend"
  /\ ~earlier.kept
  /\ earlier' = [kept |-> TRUE, profile |-> call.profile, outcome |-> outcome,
                 between |-> FALSE]
  /\ call' = Idle
  /\ outcome' = NoOutcome
  /\ UNCHANGED <<engine, tie_order, built, workers, loads, served, snapshots, paths, path_items>>

NextRepeat ==
  \/ \E db \in RepeatDatabases : Construct(db)
  \/ \E profile \in RepeatProfiles : Recommend(profile)
  \/ Keep
  \/ Finish

SpecRepeat == Init /\ [][NextRepeat]_vars

(***************************************************************************)
(* Concurrent calls: several threads call compute_recommendations on one   *)
(* engine without a lock.  A call is split at the points where it reads    *)
(* the engine: the query (lines 171-181), each iteration of the loop over  *)
(* the neighbours (lines 185-219) and the final sort (lines 221-231).      *)
(* The locals of a call (found, recs) are private to its thread.           *)
(***************************************************************************)
ConcurrentDatabases == {db \in RepeatDatabases : Len(db.nsqf_levels) > 2}

ConcurrentProfiles ==
  { Absent,
    "prior_skills" :> <<<<"n", "e", "t">>>>,
    ("prior_skills" :> <<<<" ", "P", "y", " ">>>>) @@ ("education_level" :> 5)
      @@ ("learning_pace" :> "fast") }

InitConcurrent ==
  /\ engine \in {HybridRecommender(db).value : db \in ConcurrentDatabases}
  /\ built = engine
  /\ tie_order \in {"first", "last"}
  /\ call = Idle
  /\ outcome = NoOutcome
  /\ earlier = NoEarlier
  /\ workers = [t \in Threads |-> IdleWorker]
  /\ loads = 0
  /\ served = 0
  /\ snapshots = <<>>
  /\ paths = <<>>
  /\ path_items = <<>>

\* thread t enters compute_recommendations(profile)
StartCall(t, profile) ==
  /\ workers[t].pc = "idle"
  /\ workers' = [workers EXCEPT ![t] = [pc |-> "query", profile |-> profile]]
  /\ UNCHANGED <<engine, tie_order, call, outcome, built, earlier, loads, served, snapshots, paths, path_items>>

\* lines 171-181
Query(t) ==
  /\ workers[t].pc = "query"
  /\ LET profile == workers[t].profile
         found == find_neighbours(engine, profile, tie_order)
     IN  workers' = [workers EXCEPT ![t] =
           IF found.status = "raised"
           THEN [pc |-> "done", profile |-> profile, result |-> found]
           ELSE [pc |-> "build", profile |-> profile, found |-> found.value,
                 recs |-> <<>>]]
  /\ UNCHANGED <<engine, tie_order, call, outcome, built, earlier, loads, served, snapshots, paths, path_items>>

\* lines 185-219, for the next neighbour
BuildNext(t) ==
  /\ workers[t].pc = "build"
  /\ LET w == workers[t]
         p == Len(w.recs) + 1
         rec == build_recommendation(engine, w.profile, w.found.indices[p],
                                     w.found.distances[p])
     IN  workers' = [workers EXCEPT ![t] =
           IF demand_is_null(engine.job_roles[w.found.indices[p]])
           THEN [pc |-> "done", profile |-> w.profile, result |-> Raised("TypeError")]
           ELSE [w EXCEPT !.recs = Append(@, rec),
                          !.pc = IF p = Len(w.found.indices) THEN "sort" ELSE "build"]]
  /\ UNCHANGED <<engine, tie_order, call, outcome, built, earlier, loads, served, snapshots, paths, path_items>>

\* lines 221-231
SortAndReturn(t) ==
  /\ workers[t].pc = "sort"
  /\ LET w == workers[t]
     IN  /\ workers' = [workers EXCEPT ![t] =
               [pc |-> "done", profile |-> w.profile,
                result |-> finish_recommendations(w.profile, w.recs)]]
         /\ engine' = engine_after_recommend(engine, w.profile)
  /\ UNCHANGED <<tie_order, call, outcome, built, earlier, loads, served, snapshots, paths, path_items>>

\* the caller of thread t has consumed the response
Collect(t) ==
  /\ workers[t].pc = "done"
  /\ workers' = [workers EXCEPT ![t] = IdleWorker]
  /\ UNCHANGED <<engine, tie_order, call, outcome, built, earlier, loads, served, snapshots, paths, path_items>>

NextConcurrent ==
  \E t \in Threads :
    \/ \E profile \in ConcurrentProfiles : StartCall(t, profile)
    \/ Query(t)
    \/ BuildNext(t)
    \/ SortAndReturn(t)
    \/ Collect(t)

SpecConcurrent == InitConcurrent /\ [][NextConcurrent]_vars

(***************************************************************************)
(* A serving run: an engine is built once, and requests are answered by    *)
(* calling that engine, by the module-level compute_recommendations        *)
(* function, or by the POST /recommend handler.                            *)
(***************************************************************************)
ServeDatabases ==
  { [present |-> FALSE],
    [present |-> TRUE,
     job_roles |-> <<CHOOSE r \in RolePool : r.demand_score = 0,
                     CHOOSE r \in RolePool : r.demand_score = 100,
                     CHOOSE r \in RolePool : r.demand_score = 120>>,
     nsqf_levels |-> <<NsqfRow(6), NsqfRow(5)>>] }

\* a ProfileBase that passes validation
ValidProfile ==
  [education_level |-> 5,
   prior_skills    |-> <<<<" ", "P", "y", " ">>>>,
   aspirations     |-> <<"d", "s">>,
   learning_pace   |-> "fast"]

ServeProfiles == {Absent, ValidProfile}

\* the profiles table: one row, id 1
ProfileTable == 1 :> ValidProfile

\* crud.get_profile: the row, or None
get_profile(profile_id) ==
  IF profile_id \in DOMAIN ProfileTable
  THEN [found |-> TRUE, row |-> ProfileTable[profile_id]]
  ELSE [found |-> FALSE]

\* RecommendationRequest: profile_id and profile are both optional
Requests ==
  { i @@ p :
      i \in Optional("profile_id", {0, 1, 2}),
      p \in Optional("profile", {ValidProfile}) }

\* `if request.profile_id:` is false for None and for 0
HasProfileId(request) ==
  "profile_id" \in DOMAIN request /\ request["profile_id"] # 0

\* recommendation_id = None: the ids of stored rows start at 1
NoId == 0

InitServe ==
  /\ engine \in {HybridRecommender(db).value :
                    db \in {d \in ServeDatabases : d.present}}
  /\ built = engine
  /\ tie_order \in {"first", "last"}
  /\ call = Idle
  /\ outcome = NoOutcome
  /\ earlier = NoEarlier
  /\ workers = [t \in Threads |-> IdleWorker]
  /\ loads = 1
  /\ served = 0
  /\ snapshots = <<>>
  /\ paths = <<>>
  /\ path_items = <<>>

\* recommender.compute_recommendations(profile) on the engine built at start
ServeEngine(profile) ==
  /\ call = Idle
  /\ served < MaxRequests
  /\ outcome' = compute_recommendations(engine, profile, tie_order)
  /\ engine' = engine_after_recommend(engine, profile)
  /\ served' = served + 1
  /\ call' = [op |-> "recommend", profile |-> profile]
  /\ UNCHANGED <<tie_order, built, earlier, workers, loads, snapshots, paths, path_items>>

\* compute_recommendations(profile, db_path), recommender.py lines 233-245
ServeFunction(profile, db) ==
  /\ call = Idle
  /\ served < MaxRequests
  /\ LET recommender == HybridRecommender(db)
     IN  /\ outcome' =
               IF recommender.status = "raised"
               THEN recommender
               ELSE compute_recommendations(recommender.value, profile, tie_order)
         /\ loads' = IF recommender.status = "raised" THEN loads ELSE loads + 1
  /\ served' = served + 1
  /\ call' = [op |-> "function", profile |-> profile, db |-> db]
  /\ UNCHANGED <<engine, tie_order, built, earlier, workers, snapshots, paths, path_items>>

get_recommendations_stores_every_result(request, db) ==
  /\ call = Idle
  /\ served < MaxRequests
  /\ served' = served + 1
  /\ call' = [op |-> "handler", request |-> request, db |-> db]
  /\ IF HasProfileId(request) /\ ~get_profile(request["profile_id"]).found
     THEN /\ outcome' = Raised("HTTP_404_NOT_FOUND")
          /\ UNCHANGED <<loads, snapshots>>
     ELSE IF ~HasProfileId(request) /\ "profile" \notin DOMAIN request
     THEN /\ outcome' = Raised("HTTP_400_BAD_REQUEST")
          /\ UNCHANGED <<loads, snapshots>>
     ELSE
       LET profile_data == IF HasProfileId(request)
                           THEN get_profile(request["profile_id"]).row
                           ELSE request["profile"]
           recommender == HybridRecommender(db)
           recommendations ==
             IF recommender.status = "raised"
             THEN recommender
             ELSE compute_recommendations(recommender.value, profile_data, tie_order)
           stored == recommendations.status = "returned"
       IN  /\ loads' = IF recommender.status = "raised" THEN loads ELSE loads + 1
           /\ snapshots' =
                IF stored
                THEN Append(snapshots,
                            [id |-> Len(snapshots) + 1,
                             profile_id |-> Get(request, "profile_id", NoId),
                             recommendations |-> recommendations.value])
                ELSE snapshots
           /\ outcome' =
                IF recommendations.status = "raised"
                THEN recommendations
                ELSE Returned(
                       [recommendation_id |-> IF stored THEN Len(snapshots) + 1 ELSE NoId,
                        recommendations |-> recommendations.value])
  /\ UNCHANGED <<engine, tie_order, built, earlier, workers, paths, path_items>>

\* POST /recommend, recommend.py lines 21-53
get_recommendations(request, db) ==
  /\ call = Idle
  /\ served < MaxRequests
  /\ served' = served + 1
  /\ call' = [op |-> "handler", request |-> request, db |-> db]
  /\ IF HasProfileId(request) /\ ~get_profile(request["profile_id"]).found
     THEN /\ outcome' = Raised("HTTP_404_NOT_FOUND")
          /\ UNCHANGED <<loads, snapshots>>
     ELSE IF ~HasProfileId(request) /\ "profile" \notin DOMAIN request
     THEN /\ outcome' = Raised("HTTP_400_BAD_REQUEST")
          /\ UNCHANGED <<loads, snapshots>>
     ELSE
       LET profile_data == IF HasProfileId(request)
                           THEN get_profile(request["profile_id"]).row
                           ELSE request["profile"]
           recommender == HybridRecommender(db)
           recommendations ==
             IF recommender.status = "raised"
             THEN recommender
             ELSE compute_recommendations(recommender.value, profile_data, tie_order)
           stored == recommendations.status = "returned" /\ HasProfileId(request)
       IN  /\ loads' = IF recommender.status = "raised" THEN loads ELSE loads + 1
           /\ snapshots' =
                IF stored
                THEN Append(snapshots,
                            [id |-> Len(snapshots) + 1,
                             profile_id |-> request["profile_id"],
                             recommendations |-> recommendations.value])
                ELSE snapshots
           /\ outcome' =
                IF recommendations.status = "raised"
                THEN recommendations
                ELSE Returned(
                       [recommendation_id |-> IF stored THEN Len(snapshots) + 1 ELSE NoId,
                        recommendations |-> recommendations.value])
  /\ UNCHANGED <<engine, tie_order, built, earlier, workers, paths, path_items>>

NextServe ==
  \/ \E profile \in ServeProfiles : ServeEngine(profile)
  \/ \E profile \in ServeProfiles, db \in ServeDatabases : ServeFunction(profile, db)
  \/ \E request \in Requests, db \in ServeDatabases : get_recommendations(request, db)
  \/ Finish

SpecServe == InitServe /\ [][NextServe]_vars

(***************************************************************************)
(* Ties: catalogs in which two roles with different titles have the same   *)
(* skills and the same demand_score, so that their recommendations have    *)
(* the same distance and the same match_score.                             *)
(***************************************************************************)
TieRolePool ==
  { [job_title |-> <<"I", "T">>, skills |-> <<"n", "e", "t">>, demand_score |-> 100,
     suggested_microcredentials |-> <<>>],
    [job_title |-> <<"N", "A">>, skills |-> <<"n", "e", "t">>, demand_score |-> 100,
     suggested_microcredentials |-> <<>>],
    [job_title |-> <<"D", "A">>, skills |-> <<"p", "y", ",", " ", "s", "q", "l">>,
     demand_score |-> 0, suggested_microcredentials |-> <<"m", "1", ",", " ", "m", "2">>] }

TieDatabases ==
  {[present |-> TRUE, job_roles |-> c, nsqf_levels |-> <<NsqfRow(6), NsqfRow(5)>>] :
     c \in UNION {[1..n -> TieRolePool] : n \in n_neighbors..MaxRoles}}

TieProfiles ==
  { s @@ l :
      s \in Optional("prior_skills",
                     {<<<<"n", "e", "t">>>>, <<<<" ", "P", "y", " ">>>>, <<<<" ">>>>}),
      l \in Optional("education_level", {5}) }

NextTies ==
  \/ \E db \in TieDatabases : Construct(db)
  \/ \E profile \in TieProfiles : Recommend(profile)
  \/ Finish

SpecTies == Init /\ [][NextTies]_vars

(***************************************************************************)
(* Normalisation on its own: recommender._normalize_skills(skills) is      *)
(* called on a built engine, and may be called again on the list it        *)
(* returned.                                                               *)
(***************************************************************************)
NormalizePool ==
  { <<>>, <<" ">>, <<" ", "P", "y", " ">>, <<"n", "e", "t">>,
    <<" ", "\t", "S", "Q", "L", " ", " ">>, <<"M", " ", "l">> }

NormalizeLists == UNION {[1..n -> NormalizePool] : n \in 0..MaxSkills}

\* normalized = recommender._normalize_skills(skills)
Normalize(skills) ==
  /\ call = Idle
  /\ outcome' = Returned(_normalize_skills(skills))
  /\ call' = [op |-> "normalize", skills |-> skills, again |-> FALSE]
  /\ UNCHANGED <<engine, tie_order, built, earlier, workers, loads, served, snapshots, paths, path_items>>

\* recommender._normalize_skills(normalized)
NormalizeAgain ==
  /\ call.op = "normalize"
  /\ outcome' = Returned(_normalize_skills(outcome.value))
  /\ call' = [op |-> "normalize", skills |-> outcome.value, again |-> TRUE]
  /\ UNCHANGED <<engine, tie_order, built, earlier, workers, loads, served, snapshots, paths, path_items>>

NextNormalize ==
  \/ \E skills \in NormalizeLists : Normalize(skills)
  \/ NormalizeAgain
  \/ Finish

SpecNormalize == InitServe /\ [][NextNormalize]_vars

(***************************************************************************)
(* The example catalog of the test fixture (tests/conftest.py) and the     *)
(* sample profile, with the other profiles that can be made of the         *)
(* sample's skills.                                                        *)
(***************************************************************************)
ExampleDataAnalyst ==
  [job_title |->
     <<"D", "a", "t", "a", " ", "A", "n", "a", "l", "y", "s", "t">>,
   skills |->
     <<"p", "y", "t", "h", "o", "n", ",", " ", "d", "a", "t", "a", " ",
      "a", "n", "a", "l", "y", "s", "i", "s", ",", " ", "s", "t", "a",
      "t", "i", "s", "t", "i", "c", "s", ",", " ", "s", "q", "l">>,
   demand_score |-> 90,
   suggested_microcredentials |->
     <<"D", "a", "t", "a", " ", "A", "n", "a", "l", "y", "s", "i", "s",
      " ", "w", "i", "t", "h", " ", "P", "y", "t", "h", "o", "n", ",",
      " ", "S", "Q", "L", " ", "f", "o", "r", " ", "D", "a", "t", "a",
      " ", "S", "c", "i", "e", "n", "c", "e">>]

ExampleDataScientist ==
  [job_title |->
     <<"D", "a", "t", "a", " ", "S", "c", "i", "e", "n", "t", "i", "s",
      "t">>,
   skills |->
     <<"p", "y", "t", "h", "o", "n", ",", " ", "m", "a", "c", "h", "i",
      "n", "e", " ", "l", "e", "a", "r", "n", "i", "n", "g", ",", " ",
      "s", "t", "a", "t", "i", "s", "t", "i", "c", "s", ",", " ", "d",
      "a", "t", "a", " ", "v", "i", "s", "u", "a", "l", "i", "z", "a",
      "t", "i", "o", "n">>,
   demand_score |-> 95,
   suggested_microcredentials |->
     <<"M", "a", "c", "h", "i", "n", "e", " ", "L", "e", "a", "r", "n",
      "i", "n", "g", ",", " ", "D", "a", "t", "a", " ", "V", "i", "s",
      "u", "a", "l", "i", "z", "a", "t", "i", "o", "n">>]

ExampleITSupport ==
  [job_title |->
     <<"I", "T", " ", "S", "u", "p", "p", "o", "r", "t">>,
   skills |->
     <<"t", "r", "o", "u", "b", "l", "e", "s", "h", "o", "o", "t", "i",
      "n", "g", ",", " ", "n", "e", "t", "w", "o", "r", "k", "i", "n",
      "g", ",", " ", "c", "u", "s", "t", "o", "m", "e", "r", " ", "s",
      "e", "r", "v", "i", "c", "e">>,
   demand_score |-> 80,
   suggested_microcredentials |->
     <<"C", "o", "m", "p", "T", "I", "A", " ", "A", "+", ",", " ", "I",
      "T", "I", "L">>]

ExampleLevels ==
  <<[level |-> 4,
     qualification |->
       <<"D", "i", "p", "l", "o", "m", "a", " ", "i", "n", " ", "D", "a",
        "t", "a", " ", "S", "c", "i", "e", "n", "c", "e">>,
     example_courses |->
       <<"P", "y", "t", "h", "o", "n", " ", "B", "a", "s", "i", "c", "s",
        ",", " ", "S", "t", "a", "t", "i", "s", "t", "i", "c", "s">>],
    [level |-> 5,
     qualification |->
       <<"A", "d", "v", "a", "n", "c", "e", "d", " ", "D", "i", "p", "l",
        "o", "m", "a", " ", "i", "n", " ", "D", "a", "t", "a", " ", "S",
        "c", "i", "e", "n", "c", "e">>,
     example_courses |->
       <<"M", "a", "c", "h", "i", "n", "e", " ", "L", "e", "a", "r", "n",
        "i", "n", "g", ",", " ", "D", "a", "t", "a", " ", "V", "i", "s",
        "u", "a", "l", "i", "z", "a", "t", "i", "o", "n">>],
    [level |-> 6,
     qualification |->
       <<"B", "a", "c", "h", "e", "l", "o", "r", " ", "i", "n", " ", "D",
        "a", "t", "a", " ", "S", "c", "i", "e", "n", "c", "e">>,
     example_courses |->
       <<"D", "e", "e", "p", " ", "L", "e", "a", "r", "n", "i", "n", "g",
        ",", " ", "B", "i", "g", " ", "D", "a", "t", "a">>]>>

ExampleDatabase ==
  [present |-> TRUE,
   job_roles |-> <<ExampleDataAnalyst, ExampleDataScientist, ExampleITSupport>>,
   nsqf_levels |-> ExampleLevels]

SampleSkills ==
  <<<<"p", "y", "t", "h", "o", "n">>,
    <<"d", "a", "t", "a", " ", "a", "n", "a", "l", "y", "s", "i", "s">>,
    <<"s", "t", "a", "t", "i", "s", "t", "i", "c", "s">>>>

sample_profile ==
  [education_level |-> 4,
   prior_skills    |-> SampleSkills,
   aspirations     |-> <<"d", "s">>,
   learning_pace   |-> "normal"]

ExampleProfiles ==
  { [sample_profile EXCEPT !.prior_skills = s, !.learning_pace = p] :
      s \in UNION {[1..n -> {SampleSkills[i] : i \in 1..Len(SampleSkills)}] :
                     n \in 0..Len(SampleSkills)},
      p \in {"slow", "normal", "fast"} }

InitExample ==
  /\ engine = HybridRecommender(ExampleDatabase).value
  /\ built = engine
  /\ tie_order \in {"first", "last"}
  /\ call = Idle
  /\ outcome = NoOutcome
  /\ earlier = NoEarlier
  /\ workers = [t \in Threads |-> IdleWorker]
  /\ loads = 1
  /\ served = 0
  /\ snapshots = <<>>
  /\ paths = <<>>
  /\ path_items = <<>>

NextExample ==
  \/ \E profile \in ExampleProfiles : Recommend(profile)
  \/ Finish

SpecExample == InitExample /\ [][NextExample]_vars

(***************************************************************************)
(* Catalogs whose job_roles table has no demand_score column, or has rows  *)
(* with NULL in it: _load_data selects every column of whatever table the  *)
(* database file holds.                                                    *)
(***************************************************************************)
DemandRolePool ==
  { [job_title |-> <<"I", "T">>, skills |-> <<"n", "e", "t">>, demand_score |-> 100,
     suggested_microcredentials |-> <<>>],
    [job_title |-> <<"D", "A">>, skills |-> <<"p", "y", ",", " ", "s", "q", "l">>,
     demand_score |-> 0, suggested_microcredentials |-> <<"m", "1">>],
    [job_title |-> <<"N", "U">>, skills |-> <<"p", "y">>, demand_score |-> 0,
     null_columns |-> {"demand_score"}, suggested_microcredentials |-> <<"m", "l">>] }

\* the same row read from a table without the demand_score column
WithoutDemandColumn(row) ==
  [key \in DOMAIN row \ {"demand_score", "null_columns"} |-> row[key]]

DemandCatalogs == [1..n_neighbors -> DemandRolePool]

DemandDatabases ==
  {[present |-> TRUE, job_roles |-> c, nsqf_levels |-> <<NsqfRow(6), NsqfRow(5)>>] :
     c \in DemandCatalogs}
  \cup
  {[present |-> TRUE,
    job_roles |-> [i \in 1..Len(c) |-> WithoutDemandColumn(c[i])],
    nsqf_levels |-> <<NsqfRow(6), NsqfRow(5)>>] :
     c \in DemandCatalogs}

NextDemand ==
  \/ \E db \in DemandDatabases : Construct(db)
  \/ \E profile \in TieProfiles : Recommend(profile)
  \/ Finish

SpecDemand == Init /\ [][NextDemand]_vars

(***************************************************************************)
(* The learning-path service (backend/app/services/learning_path_service.py)*)
(* and its endpoints (backend/app/api/learning_paths.py).  The content of  *)
(* an AI response is either text holding no JSON array or a JSON array of  *)
(* objects; a JSON value that int() is applied to is a number, a           *)
(* non-numeric string or null.                                             *)
(***************************************************************************)
VALID_SKILL_LEVELS == {<<"b", "e", "g", "i", "n", "n", "e", "r">>, <<"i", "n", "t", "e", "r", "m", "e", "d", "i", "a", "t", "e">>, <<"a", "d", "v", "a", "n", "c", "e", "d">>}

VALID_TIME_COMMITMENTS == {<<"l", "o", "w">>, <<"m", "e", "d", "i", "u", "m">>, <<"h", "i", "g", "h">>}

VALID_ITEM_TYPES == {"course", "article", "video", "exercise", "project"}

required_fields == {"item_type", "title", "description", "estimated_duration", "order"}

\* int(x) of a parsed JSON value
int(v) ==
  IF "number" \in DOMAIN v THEN Returned(v.number)
  ELSE IF "string" \in DOMAIN v THEN Raised("ValueError")
  ELSE Raised("TypeError")

py_max(a, b) == IF b > a THEN b ELSE a

clamp_duration_unclamped(n) == n

\* max(5, min(240, int(item['estimated_duration'])))
clamp_duration(n) == py_max(5, IF n < 240 THEN n ELSE 240)

parse_item_keeps_any_type(item) ==
  IF ~(required_fields \subseteq DOMAIN item)
  THEN [skip |-> TRUE]
  ELSE LET duration == int(item["estimated_duration"])
           order == int(item["order"])
       IN  IF duration.status = "raised" THEN duration
           ELSE IF order.status = "raised" THEN order
           ELSE Returned(
                  [item_type |-> item["item_type"],
                   title |-> Strip(item["title"]),
                   description |-> Strip(item["description"]),
                   resource_url |-> Strip(Get(item, "resource_url", <<>>)),
                   estimated_duration |-> clamp_duration(duration.value),
                   order |-> order.value])

\* One turn of the loop of _parse_ai_response, lines 155-174.
parse_item(item) ==
  IF ~(required_fields \subseteq DOMAIN item)
  THEN [skip |-> TRUE]
  ELSE IF item["item_type"] \notin VALID_ITEM_TYPES
  THEN [skip |-> TRUE]
  ELSE LET duration == int(item["estimated_duration"])
           order == int(item["order"])
       IN  IF duration.status = "raised" THEN duration
           ELSE IF order.status = "raised" THEN order
           ELSE Returned(
                  [item_type |-> item["item_type"],
                   title |-> Strip(item["title"]),
                   description |-> Strip(item["description"]),
                   resource_url |-> Strip(Get(item, "resource_url", <<>>)),
                   estimated_duration |-> clamp_duration(duration.value),
                   order |-> order.value])

RECURSIVE parse_items(_)
parse_items(items) ==
  IF items = <<>> THEN Returned(<<>>)
  ELSE LET first == parse_item(Head(items))
       IN  IF "skip" \in DOMAIN first THEN parse_items(Tail(items))
           ELSE IF first.status = "raised" THEN first
           ELSE LET rest == parse_items(Tail(items))
                IN  IF rest.status = "raised" THEN rest
                    ELSE Returned(<<first.value>> \o rest.value)

\* _parse_ai_response, lines 145-178: a ValueError of the loop is raised
\* again as ValueError, a TypeError is not caught.
_parse_ai_response(content) ==
  IF "array" \notin DOMAIN content
  THEN Raised("ValueError")
  ELSE parse_items(content.array)

MaxItems == 2

GoodItem(type, duration, order) ==
  [item_type |-> type, title |-> <<" ", "T">>, description |-> <<"d", " ">>,
   estimated_duration |-> duration, order |-> order]

Without(item, key) == [k \in DOMAIN item \ {key} |-> item[k]]

AiItems ==
  { GoodItem("course", [number |-> d], [number |-> 1]) : d \in {-3, 4, 90, 241} }
    \cup { GoodItem("video", [number |-> 5], [number |-> 0]) @@ ("resource_url" :> <<"u">>),
           GoodItem("project", [number |-> 240], [number |-> 2]),
           GoodItem("quiz", [number |-> 30], [number |-> 3]),
           GoodItem("quiz", [string |-> "soon"], [number |-> 3]),
           GoodItem("article", [string |-> "soon"], [number |-> 4]),
           GoodItem("exercise", [null |-> TRUE], [number |-> 5]),
           Without(GoodItem("course", [number |-> 60], [number |-> 6]), "title"),
           Without(GoodItem("course", [number |-> 60], [number |-> 6]), "order") }

RECURSIVE ItemLists(_)
ItemLists(n) ==
  IF n = 0 THEN {<<>>}
  ELSE ItemLists(n - 1)
         \cup { Append(l, i) : l \in { x \in ItemLists(n - 1) : Len(x) = n - 1 },
                               i \in AiItems }

Parse(content) ==
  /\ call = Idle
  /\ outcome' = _parse_ai_response(content)
  /\ call' = [op |-> "parse", content |-> content]
  /\ UNCHANGED <<engine, tie_order, built, earlier, workers, loads, served, snapshots, paths, path_items>>

NextParse ==
  \/ \E content \in ({[text |-> "Sorry"]} \cup {[array |-> l] : l \in ItemLists(MaxItems)}) : Parse(content)
  \/ Finish

SpecParse == InitServe /\ [][NextParse]_vars


UpperChar(c) ==
  CASE c = "a" -> "A"
    [] c = "p" -> "P"
    [] c = "y" -> "Y"
    [] c = "s" -> "S"
    [] c = "q" -> "Q"
    [] c = "l" -> "L"
    [] OTHER -> c

\* str.title(): a cased character is upper case after an uncased one (or at
\* the start) and lower case after a cased one.
TitleCase(s) ==
  [i \in 1..Len(s) |->
     IF i > 1 /\ (LowerChar(s[i - 1]) # s[i - 1] \/ UpperChar(s[i - 1]) # s[i - 1]) THEN LowerChar(s[i]) ELSE UpperChar(s[i])]

TxtLearningPath == <<" ", "L", "e", "a", "r", "n", "i", "n", "g", " ", "P", "a", "t", "h">>

TxtPersonalized == <<"A", " ", "p", "e", "r", "s", "o", "n", "a", "l", "i", "z", "e", "d", " ", "l", "e", "a", "r", "n", "i", "n", "g", " ", "p", "a", "t", "h", " ", "f", "o", "r", " ">>

TxtAt == <<" ", "a", "t", " ">>

TxtLevel == <<" ", "l", "e", "v", "e", "l", ".">>

\* _validate_and_format_input, lines 94-109
_validate_and_format_input(topic, current_level, time_commitment) ==
  IF topic = <<>> \/ Len(Strip(topic)) < 2
  THEN Raised("ValueError")
  ELSE Returned(
         [topic |-> Strip(topic),
          current_level |-> IF Lower(current_level) \in VALID_SKILL_LEVELS
                            THEN Lower(current_level)
                            ELSE <<"b", "e", "g", "i", "n", "n", "e", "r">>,
          time_commitment |-> IF Lower(time_commitment) \in VALID_TIME_COMMITMENTS
                              THEN Lower(time_commitment)
                              ELSE <<"m", "e", "d", "i", "u", "m">>])

\* LearningPathItemCreate, schemas/learning_path.py lines 19-30
LearningPathItemCreate(item_type, title, description, resource_url, estimated_duration, order) ==
  [item_type |-> item_type, title |-> title, description |-> description,
   resource_url |-> resource_url, estimated_duration |-> estimated_duration,
   order |-> order, is_completed |-> FALSE]

\* LearningPathCreate, schemas/learning_path.py lines 51-58
LearningPathCreate(title, description, items) ==
  [title |-> title, description |-> description, status |-> "draft", items |-> items]

\* _create_default_path, lines 180-195
_create_default_path(topic, current_level) ==
  LearningPathCreate(
    TitleCase(topic) \o TxtLearningPath,
    TxtPersonalized \o topic \o TxtAt \o current_level \o TxtLevel,
    << LearningPathItemCreate(
         "course",
         <<"I", "n", "t", "r", "o", "d", "u", "c", "t", "i", "o", "n", " ", "t", "o", " ">> \o topic,
         <<"A", " ", "c", "o", "m", "p", "r", "e", "h", "e", "n", "s", "i", "v", "e", " ", "i", "n", "t", "r", "o", "d", "u", "c", "t", "i", "o", "n", " ", "t", "o", " ">> \o topic \o <<" ", "f", "o", "r", " ">> \o current_level \o <<" ", "l", "e", "a", "r", "n", "e", "r", "s", ".">>,
         <<>>, 120, 0) >>)

generate_learning_path_recommendations_keeps_empty_list(topic, current_level, time_commitment, ai) ==
  LET validated == _validate_and_format_input(topic, current_level, time_commitment)
  IN  IF validated.status = "raised"
      THEN Raised("HTTP_400_BAD_REQUEST")
      ELSE
        LET t == validated.value.topic
            level == validated.value.current_level
            items_data == IF "raises" \in DOMAIN ai
                          THEN Raised(ai.raises)
                          ELSE _parse_ai_response(ai.content)
        IN  IF items_data.status = "raised"
            THEN Returned(_create_default_path(t, level))
            ELSE Returned(
                   LearningPathCreate(
                     TitleCase(t) \o TxtLearningPath,
                     TxtPersonalized \o t \o TxtAt \o level \o TxtLevel,
                     [i \in 1..Len(items_data.value) |->
                        LearningPathItemCreate(
                          items_data.value[i].item_type,
                          items_data.value[i].title,
                          items_data.value[i].description,
                          items_data.value[i].resource_url,
                          items_data.value[i].estimated_duration,
                          items_data.value[i].order)]))

\* generate_learning_path_recommendations, lines 197-290
generate_learning_path_recommendations(topic, current_level, time_commitment, ai) ==
  LET validated == _validate_and_format_input(topic, current_level, time_commitment)
  IN  IF validated.status = "raised"
      THEN Raised("HTTP_400_BAD_REQUEST")
      ELSE
        LET t == validated.value.topic
            level == validated.value.current_level
            items_data == IF "raises" \in DOMAIN ai
                          THEN Raised(ai.raises)
                          ELSE _parse_ai_response(ai.content)
        IN  IF items_data.status = "raised"
            THEN Returned(_create_default_path(t, level))
            ELSE IF items_data.value = <<>>
            THEN Returned(_create_default_path(t, level))
            ELSE Returned(
                   LearningPathCreate(
                     TitleCase(t) \o TxtLearningPath,
                     TxtPersonalized \o t \o TxtAt \o level \o TxtLevel,
                     [i \in 1..Len(items_data.value) |->
                        LearningPathItemCreate(
                          items_data.value[i].item_type,
                          items_data.value[i].title,
                          items_data.value[i].description,
                          items_data.value[i].resource_url,
                          items_data.value[i].estimated_duration,
                          items_data.value[i].order)]))

(***************************************************************************)
(* The tables learning_paths and learning_path_items are sequences of      *)
(* rows.  SQLite gives a new row the id one above the largest id of the    *)
(* table.                                                                  *)
(***************************************************************************)
RECURSIVE LargestId(_)
LargestId(table) ==
  IF table = <<>> THEN 0
  ELSE py_max(Head(table).id, LargestId(Tail(table)))

\* create_learning_path_item, lines 83-92
create_learning_path_item(items_table, item, path_id) ==
  Append(items_table,
         item @@ [id |-> LargestId(items_table) + 1, learning_path_id |-> path_id])

RECURSIVE create_items(_, _, _)
create_items(items_table, items, path_id) ==
  IF items = <<>> THEN items_table
  ELSE create_items(create_learning_path_item(items_table, Head(items), path_id),
                    Tail(items), path_id)

\* create_learning_path, lines 43-57
create_learning_path(paths_table, items_table, path, user_id) ==
  LET db_path == [id |-> LargestId(paths_table) + 1,
                  user_id |-> user_id,
                  title |-> path.title,
                  description |-> path.description,
                  status |-> path.status]
  IN  [paths |-> Append(paths_table, db_path),
       path_items |-> create_items(items_table, path.items, db_path.id),
       db_path |-> db_path]

MaxPaths == 2

Users == {1, 2}

Topics == {<<>>, <<" ">>, <<"a">>, <<" ", "a", " ">>, <<"p", "y">>, <<" ", "s", "q", "l", " ">>, <<"P", "y">>}

Levels == {<<"b", "e", "g", "i", "n", "n", "e", "r">>, <<"A", "d", "v", "a", "n", "c", "e", "d">>, <<"e", "x", "p", "e", "r", "t">>}

AiBehaviours ==
  {[raises |-> "APIError"], [content |-> [text |-> "Sorry"]]}
    \cup { [content |-> [array |-> l]] : l \in ItemLists(1) }
    \cup { [content |-> [array |-> <<GoodItem("quiz", [number |-> 30], [number |-> 3]),
                                  Without(GoodItem("course", [number |-> 60], [number |-> 6]), "title")>>]],
           [content |-> [array |-> <<GoodItem("course", [number |-> 241], [number |-> 1]),
                                  GoodItem("project", [number |-> 240], [number |-> 2])>>]] }

ValidateInput(topic, current_level, time_commitment) ==
  /\ call = Idle
  /\ outcome' = _validate_and_format_input(topic, current_level, time_commitment)
  /\ call' = [op |-> "validate", topic |-> topic, current_level |-> current_level,
              time_commitment |-> time_commitment]
  /\ UNCHANGED <<engine, tie_order, built, earlier, workers, loads, served, snapshots, paths, path_items>>

GenerateRecommendations(topic, current_level, time_commitment, ai) ==
  /\ call = Idle
  /\ outcome' = generate_learning_path_recommendations(topic, current_level, time_commitment, ai)
  /\ call' = [op |-> "generate_recommendations", topic |-> topic,
              current_level |-> current_level, time_commitment |-> time_commitment,
              ai |-> ai]
  /\ UNCHANGED <<engine, tie_order, built, earlier, workers, loads, served, snapshots, paths, path_items>>

\* POST /generate, api/learning_paths.py lines 117-149: every exception of
\* the try block, an HTTPException of the service included, is caught by
\* "except Exception" and raised again with status 500.
generate_learning_path(current_user, topic, current_level, time_commitment, ai) ==
  /\ call = Idle
  /\ Len(paths) < MaxPaths
  /\ call' = [op |-> "generate", user |-> current_user, topic |-> topic,
              current_level |-> current_level, time_commitment |-> time_commitment,
              ai |-> ai]
  /\ LET learning_path ==
           generate_learning_path_recommendations(topic, current_level, time_commitment, ai)
     IN  IF learning_path.status = "raised"
         THEN /\ outcome' = Raised("HTTP_500_INTERNAL_SERVER_ERROR")
              /\ UNCHANGED <<paths, path_items>>
         ELSE LET created == create_learning_path(paths, path_items,
                                                  learning_path.value, current_user)
              IN  /\ paths' = created.paths
                  /\ path_items' = created.path_items
                  /\ outcome' = Returned(created.db_path
                                           @@ [items |-> SelectSeq(created.path_items,
                                                                 LAMBDA row : row.learning_path_id
                                                                                = created.db_path.id)])
  /\ UNCHANGED <<engine, tie_order, built, earlier, workers, loads, served, snapshots>>

NextGenerate ==
  \/ \E topic \in Topics, current_level \in Levels, time_commitment \in ({<<"m", "e", "d", "i", "u", "m">>, <<"L", "o", "w">>, <<"n", "o", "n", "e">>}) :
       ValidateInput(topic, current_level, time_commitment)
  \/ \E topic \in Topics, current_level \in Levels, ai \in AiBehaviours :
       GenerateRecommendations(topic, current_level, <<"m", "e", "d", "i", "u", "m">>, ai)
  \/ Finish

InitPaths ==
  /\ engine = NoEngine
  /\ built = NoEngine
  /\ tie_order = "first"
  /\ call = Idle
  /\ outcome = NoOutcome
  /\ earlier = NoEarlier
  /\ workers = [t \in Threads |-> IdleWorker]
  /\ loads = 0
  /\ served = 0
  /\ snapshots = <<>>
  /\ paths = <<>>
  /\ path_items = <<>>

SpecGenerate == InitPaths /\ [][NextGenerate]_vars

EndpointAi ==
  { [raises |-> "APIError"],
    [content |-> [text |-> "Sorry"]],
    [content |-> [array |-> <<GoodItem("course", [number |-> 241], [number |-> 1]),
                           GoodItem("quiz", [number |-> 30], [number |-> 3])>>]] }

NextEndpoint ==
  \/ \E current_user \in Users, topic \in Topics, current_level \in Levels, ai \in EndpointAi :
       generate_learning_path(current_user, topic, current_level, <<"m", "e", "d", "i", "u", "m">>, ai)
  \/ Finish

SpecEndpoint == InitPaths /\ [][NextEndpoint]_vars



(***************************************************************************)
(* Reading, updating and deleting a stored learning path and adding an     *)
(* item to it.  A result of the service is the value returned together     *)
(* with the tables after the call.                                         *)
(***************************************************************************)
get_learning_path_ignores_owner(paths_table, path_id, user_id) ==
  LET found == SelectSeq(paths_table, LAMBDA row : row.id = path_id)
  IN  IF found = <<>>
      THEN Raised("HTTP_404_NOT_FOUND")
      ELSE Returned(Head(found))

\* get_learning_path, lines 31-41
get_learning_path(paths_table, path_id, user_id) ==
  LET found == SelectSeq(paths_table,
                         LAMBDA row : row.id = path_id /\ row.user_id = user_id)
  IN  IF found = <<>>
      THEN Raised("HTTP_404_NOT_FOUND")
      ELSE Returned(Head(found))

\* setattr(db_path, field, value) for every field that the update sets
SetFields(db_path, update_data) ==
  [field \in DOMAIN db_path |->
     IF field \in DOMAIN update_data /\ field # "items"
     THEN update_data[field]
     ELSE db_path[field]]

\* update_learning_path, lines 59-75
update_learning_path(paths_table, path_id, path_update, user_id) ==
  LET db_path == get_learning_path(paths_table, path_id, user_id)
  IN  IF db_path.status = "raised"
      THEN db_path
      ELSE Returned(
             [db_path |-> SetFields(db_path.value, path_update),
              paths |-> [i \in 1..Len(paths_table) |->
                           IF paths_table[i].id = path_id
                           THEN SetFields(paths_table[i], path_update)
                           ELSE paths_table[i]]])

\* delete_learning_path, lines 77-81; the relationship LearningPath.items
\* cascades the deletion to the items of the path.
delete_learning_path(paths_table, items_table, path_id, user_id) ==
  LET db_path == get_learning_path(paths_table, path_id, user_id)
  IN  IF db_path.status = "raised"
      THEN db_path
      ELSE Returned(
             [db_path |-> db_path.value,
              paths |-> SelectSeq(paths_table, LAMBDA row : row.id # path_id),
              path_items |-> SelectSeq(items_table,
                                       LAMBDA row : row.learning_path_id # path_id)])

MaxStoredItems == 2

\* POST /, api/learning_paths.py lines 46-55
create_learning_path_endpoint(current_user, learning_path) ==
  /\ call = Idle
  /\ LargestId(paths) < MaxPaths
  /\ call' = [op |-> "create", user |-> current_user]
  /\ LET created == create_learning_path(paths, path_items, learning_path, current_user)
     IN  /\ paths' = created.paths
         /\ path_items' = created.path_items
         /\ outcome' = Returned(created.db_path)
  /\ UNCHANGED <<engine, tie_order, built, earlier, workers, loads, served, snapshots>>

\* GET /{path_id}, api/learning_paths.py lines 57-66
read_learning_path(current_user, path_id) ==
  /\ call = Idle
  /\ call' = [op |-> "read", user |-> current_user, path_id |-> path_id]
  /\ outcome' = get_learning_path(paths, path_id, current_user)
  /\ UNCHANGED <<engine, tie_order, built, earlier, workers, loads, served, snapshots, paths, path_items>>

\* PUT /{path_id}, api/learning_paths.py lines 68-83
update_learning_path_endpoint(current_user, path_id, learning_path) ==
  /\ call = Idle
  /\ call' = [op |-> "update", user |-> current_user, path_id |-> path_id,
              update |-> learning_path]
  /\ LET updated == update_learning_path(paths, path_id, learning_path, current_user)
     IN  IF updated.status = "raised"
         THEN /\ outcome' = updated
              /\ paths' = paths
         ELSE /\ outcome' = Returned(updated.value.db_path)
              /\ paths' = updated.value.paths
  /\ UNCHANGED <<engine, tie_order, built, earlier, workers, loads, served, snapshots, path_items>>

\* DELETE /{path_id}, api/learning_paths.py lines 85-95
delete_learning_path_endpoint(current_user, path_id) ==
  /\ call = Idle
  /\ call' = [op |-> "delete", user |-> current_user, path_id |-> path_id]
  /\ LET deleted == delete_learning_path(paths, path_items, path_id, current_user)
     IN  IF deleted.status = "raised"
         THEN /\ outcome' = deleted
              /\ UNCHANGED <<paths, path_items>>
         ELSE /\ outcome' = Returned("None")
              /\ paths' = deleted.value.paths
              /\ path_items' = deleted.value.path_items
  /\ UNCHANGED <<engine, tie_order, built, earlier, workers, loads, served, snapshots>>

\* POST /{path_id}/items, api/learning_paths.py lines 97-115
add_learning_path_item(current_user, path_id, item) ==
  /\ call = Idle
  /\ LargestId(path_items) < MaxStoredItems
  /\ call' = [op |-> "add_item", user |-> current_user, path_id |-> path_id]
  /\ LET path == get_learning_path(paths, path_id, current_user)
     IN  IF path.status = "raised"
         THEN /\ outcome' = path
              /\ path_items' = path_items
         ELSE /\ path_items' = create_learning_path_item(path_items, item, path_id)
              /\ outcome' = Returned(path_items'[Len(path_items')])
  /\ UNCHANGED <<engine, tie_order, built, earlier, workers, loads, served, snapshots, paths>>

NextPaths ==
  \/ \E current_user \in Users : create_learning_path_endpoint(current_user, LearningPathCreate(<<"S", "q", "l">>, <<"d">>, <<>>))
  \/ \E current_user \in Users, path_id \in (1..MaxPaths) : read_learning_path(current_user, path_id)
  \/ \E current_user \in Users, path_id \in (1..MaxPaths), learning_path \in ({Absent, "title" :> <<"N", "e", "w">>}) :
       update_learning_path_endpoint(current_user, path_id, learning_path)
  \/ \E current_user \in Users, path_id \in (1..MaxPaths) :
       delete_learning_path_endpoint(current_user, path_id)
  \/ \E current_user \in Users, path_id \in (1..MaxPaths) :
       add_learning_path_item(current_user, path_id, LearningPathItemCreate("video", <<"T">>, <<"d">>, <<>>, 30, 0))
  \/ Finish

SpecPaths == InitPaths /\ [][NextPaths]_vars


(***************************************************************************)
(* Vocabulary of the properties.                                           *)
(***************************************************************************)
RecommendReturned == call.op = "recommend" /\ outcome.status = "returned"

RecommendRaised ==
  call.op = "recommend" /\ outcome.status = "raised" /\ outcome.error = "ValueError"

GivenSkills == Get(call.profile, "prior_skills", <<>>)

GivenLevel == Get(call.profile, "education_level", 1)

IsBlank(text) == Strip(text) = <<>>

NoUsableSkills == \A i \in 1..Len(GivenSkills) : IsBlank(GivenSkills[i])

Recs == outcome.value.recommendations

TitlesOf(seq) == [i \in 1..Len(seq) |-> seq[i].job_title]

HasStep(rec, name) == \E i \in 1..Len(rec.pathway) : rec.pathway[i].step = name

RECURSIVE SumSeq(_)
SumSeq(seq) == IF seq = <<>> THEN 0 ELSE Head(seq) + SumSeq(Tail(seq))

TotalDuration(result) ==
  SumSeq([r \in 1..Len(result.recommendations) |->
            SumSeq([i \in 1..Len(result.recommendations[r].pathway) |->
                      result.recommendations[r].pathway[i].duration_weeks])])

Max(a, b) == IF a >= b THEN a ELSE b

Min(a, b) == IF a <= b THEN a ELSE b

TitleDA == <<"D", "A">>

TitleIT == <<"I", "T">>

TitleDS == <<"D", "S">>

(***************************************************************************)
(* C1: a profile whose skills are missing, empty or all blank makes        *)
(* compute_recommendations raise the validation error; no recommendation   *)
(* set is returned.                                                        *)
(***************************************************************************)
C1_BlankSkillsRejected ==
  (call.op = "recommend" /\ NoUsableSkills) => RecommendRaised

(***************************************************************************)
(* C2: _normalize_skills returns exactly the lower-cased, stripped         *)
(* non-blank inputs in input order, so its output holds no empty string.   *)
(***************************************************************************)
NonBlank(text) == text # <<>>

C2_NormalizeDropsBlank ==
  call.op = "recommend" =>
    /\ _normalize_skills(GivenSkills) =
         SelectSeq([i \in 1..Len(GivenSkills) |-> Strip(Lower(GivenSkills[i]))], NonBlank)
    /\ \A i \in 1..Len(_normalize_skills(GivenSkills)) :
         _normalize_skills(GivenSkills)[i] # <<>>

(***************************************************************************)
(* C3: on a catalog of n >= 1 roles a valid profile gets exactly           *)
(* min(3, n) recommendations, each for a distinct catalog role; with       *)
(* n < 3 the call does not fail.                                           *)
(***************************************************************************)
DistinctCatalogRoles(recs, job_roles) ==
  \E f \in [1..Len(recs) -> 1..Len(job_roles)] :
    /\ \A i, j \in 1..Len(recs) : i # j => f[i] # f[j]
    /\ \A i \in 1..Len(recs) : job_roles[f[i]].job_title = recs[i].job_title

C3_MinThreeOrAll ==
  (call.op = "recommend" /\ ~NoUsableSkills) =>
    /\ outcome.status = "returned"
    /\ Len(Recs) = Min(3, Len(engine.job_roles))
    /\ DistinctCatalogRoles(Recs, engine.job_roles)

(***************************************************************************)
(* C4: match_score is non-increasing along every returned list of          *)
(* recommendations.                                                        *)
(***************************************************************************)
C4_ScoresNonIncreasing ==
  RecommendReturned =>
    \A i, j \in 1..Len(Recs) : i < j => Recs[i].match_score >= Recs[j].match_score

\* the neighbours come back as IT, DA, DS (distance 0, then two at distance
\* 1 in catalog order) and the sort moves DS before DA
C4_SortReorders ==
  /\ RecommendReturned
  /\ tie_order = "first"
  /\ TitlesOf(engine.job_roles) = <<TitleDA, TitleIT, TitleDS>>
  /\ TitlesOf(Recs) = <<TitleIT, TitleDS, TitleDA>>
  /\ Recs[2].match_score > Recs[3].match_score

(***************************************************************************)
(* C5: when every demand_score of the catalog is in 0..100, every          *)
(* returned match_score is in [0, 100] (0..1000 tenths).                   *)
(***************************************************************************)
DemandInRange ==
  \A i \in 1..Len(engine.job_roles) : engine.job_roles[i].demand_score \in 0..100

C5_ScoreBounds ==
  (RecommendReturned /\ DemandInRange) =>
    \A i \in 1..Len(Recs) : Recs[i].match_score >= 0 /\ Recs[i].match_score <= 1000

\* both ends of the range are met: an exact match of demand 100 scores
\* 100.0 and a role of demand 0 sharing no term scores 0.0
C5_BothEndsReached ==
  /\ RecommendReturned
  /\ DemandInRange
  /\ Recs[1].match_score = 1000
  /\ Recs[Len(Recs)].match_score = 0

(***************************************************************************)
(* C6: constructing on a catalog without job roles raises and binds no     *)
(* engine; an engine a caller holds always has roles, a fitted vocabulary  *)
(* and one matrix row per role.                                            *)
(***************************************************************************)
EmptyCatalogGiven ==
  call.op = "construct" /\ call.db.present /\ call.db.job_roles = <<>>

C6_NoEngineFromEmptyCatalog ==
  /\ EmptyCatalogGiven => (outcome.status = "raised" /\ outcome.error = "ValueError")
  /\ engine.exists =>
       /\ engine.job_roles # <<>>
       /\ engine.vocabulary # {}
       /\ Len(engine.skills_matrix) = Len(engine.job_roles)

C6_EmptyCatalogRefused ==
  EmptyCatalogGiven /\ outcome.status = "raised" /\ ~engine.exists

(***************************************************************************)
(* C7: every step of every returned pathway lasts                          *)
(* max(1, trunc(base * m)) weeks, base being 12, 16, 8, 12 for the four    *)
(* steps and m being 1.3, 1.0, 0.7 for slow, normal, fast; every duration  *)
(* is greater than 0.                                                      *)
(***************************************************************************)
C7_Base(step) ==
  CASE step = "Foundational"          -> 12
    [] step = "Core"                  -> 16
    [] step = "Micro-credential"      -> 8
    [] step = "On-the-job/Internship" -> 12

C7_Tenths(pace) ==
  CASE pace = "slow"   -> 13
    [] pace = "normal" -> 10
    [] pace = "fast"   -> 7

PaceGiven == Get(call.profile, "learning_pace", "absent")

C7_DurationFormula ==
  RecommendReturned =>
    \A r \in 1..Len(Recs) : \A i \in 1..Len(Recs[r].pathway) :
      LET step == Recs[r].pathway[i]
      IN  /\ step.duration_weeks > 0
          /\ PaceGiven \in {"slow", "normal", "fast"} =>
               step.duration_weeks =
                 Max(1, (C7_Base(step.step) * C7_Tenths(PaceGiven)) \div 10)

\* truncation is visible: 8 * 0.7 = 5.6 gives 5 and 16 * 0.7 = 11.2 gives 11
C7_TruncatedFast ==
  /\ RecommendReturned
  /\ PaceGiven = "fast"
  /\ \E r \in 1..Len(Recs) : \E i, j \in 1..Len(Recs[r].pathway) :
       /\ Recs[r].pathway[i].step = "Core"
       /\ Recs[r].pathway[i].duration_weeks = 11
       /\ Recs[r].pathway[j].step = "Micro-credential"
       /\ Recs[r].pathway[j].duration_weeks = 5

(***************************************************************************)
(* C8: for the same engine and the same profile apart from learning_pace,  *)
(* the total of duration_weeks with pace fast is strictly less than the    *)
(* total with pace slow.                                                   *)
(***************************************************************************)
SameProfileAtPace(pace) == ("learning_pace" :> pace) @@ call.profile

C8_FastShorterThanSlow ==
  (RecommendReturned /\ PaceGiven = "fast") =>
    LET slow == compute_recommendations(engine, SameProfileAtPace("slow"), tie_order)
    IN  /\ slow.status = "returned"
        /\ TotalDuration(outcome.value) < TotalDuration(slow.value)

C8_FastCallReturned ==
  /\ RecommendReturned
  /\ PaceGiven = "fast"
  /\ Len(Recs) = 3
  /\ TotalDuration(outcome.value) >= 3 * 8

(***************************************************************************)
(* C9: with education_level >= 7 no returned pathway has a Foundational    *)
(* or a Core step, whatever levels the catalog holds.                      *)
(***************************************************************************)
C9_NoCoursesAtTarget ==
  (RecommendReturned /\ GivenLevel >= 7) =>
    \A r \in 1..Len(Recs) :
      ~HasStep(Recs[r], "Foundational") /\ ~HasStep(Recs[r], "Core")

\* the learner is at level 7 and the catalog holds levels 7 and 8
C9_AtTargetWithHigherLevels ==
  /\ RecommendReturned
  /\ GivenLevel = 7
  /\ \E i, j \in 1..Len(engine.nsqf_levels) :
       engine.nsqf_levels[i].level = 7 /\ engine.nsqf_levels[j].level = 8
  /\ \A r \in 1..Len(Recs) : ~HasStep(Recs[r], "Foundational")

(***************************************************************************)
(* C10: a pathway has a Micro-credential step if and only if its role has  *)
(* at least one microcredential, and the step's title is then the first    *)
(* microcredential; a role with empty suggested_microcredentials gets no   *)
(* such step.                                                              *)
(***************************************************************************)
RoleTitled(title) ==
  engine.job_roles[CHOOSE i \in 1..Len(engine.job_roles) :
                     engine.job_roles[i].job_title = title]

MicrocredentialsOf(role) ==
  LET parts == Split(role.suggested_microcredentials, ",")
  IN  SelectSeq([i \in 1..Len(parts) |-> Strip(parts[i])], NonBlank)

C10_MicroStepIffAny ==
  RecommendReturned =>
    \A r \in 1..Len(Recs) :
      LET list == MicrocredentialsOf(RoleTitled(Recs[r].job_title))
      IN  /\ HasStep(Recs[r], "Micro-credential") <=> list # <<>>
          /\ \A i \in 1..Len(Recs[r].pathway) :
               Recs[r].pathway[i].step = "Micro-credential" =>
                 Recs[r].pathway[i].title = list[1]

(***************************************************************************)
(* C11: a pathway has a Foundational step if and only if the catalog has   *)
(* a qualification level L with current_level < L <= 7; the step carries   *)
(* the qualification and level of the smallest such L, type 'course' and   *)
(* base duration 12 weeks.                                                 *)
(***************************************************************************)
LevelInRange(row) == GivenLevel < row.level /\ row.level <= 7

RowsInRange == SelectSeq(engine.nsqf_levels, LevelInRange)

LowestRowInRange ==
  RowsInRange[CHOOSE i \in 1..Len(RowsInRange) :
                \A j \in 1..Len(RowsInRange) : RowsInRange[i].level <= RowsInRange[j].level]

HighestRowInRange ==
  RowsInRange[CHOOSE i \in 1..Len(RowsInRange) :
                \A j \in 1..Len(RowsInRange) : RowsInRange[i].level >= RowsInRange[j].level]

\* base weeks scaled by the pace of the call, when the pace is a known one
BaseScaled(base, weeks) ==
  PaceGiven \in {"slow", "normal", "fast"} =>
    weeks = (base * C7_Tenths(PaceGiven)) \div 10

C11_FoundationalIsLowest ==
  RecommendReturned =>
    \A r \in 1..Len(Recs) :
      /\ HasStep(Recs[r], "Foundational") <=> RowsInRange # <<>>
      /\ \A i \in 1..Len(Recs[r].pathway) :
           LET step == Recs[r].pathway[i]
           IN  step.step = "Foundational" =>
                 /\ step.title = LowestRowInRange.qualification
                 /\ step.level = LowestRowInRange.level
                 /\ step.type = "course"
                 /\ BaseScaled(12, step.duration_weeks)

\* the table is stored as 7, 5, 6, 8 and the learner is at the default
\* level 1: the step is taken from the second row
C11_LowestNotFirstRow ==
  /\ RecommendReturned
  /\ GivenLevel = 1
  /\ Len(engine.nsqf_levels) = 4
  /\ engine.nsqf_levels[1].level = 7
  /\ Recs[1].pathway[1].step = "Foundational"
  /\ Recs[1].pathway[1].level = 5

(***************************************************************************)
(* C12: a pathway has a Core step if and only if more than one catalog     *)
(* level L satisfies current_level < L <= 7; the step carries the          *)
(* qualification and level of the largest such L, type 'course' and base   *)
(* duration 16 weeks; with exactly one such level there is no Core step.   *)
(***************************************************************************)
C12_CoreIsHighest ==
  RecommendReturned =>
    \A r \in 1..Len(Recs) :
      /\ HasStep(Recs[r], "Core") <=> Len(RowsInRange) > 1
      /\ \A i \in 1..Len(Recs[r].pathway) :
           LET step == Recs[r].pathway[i]
           IN  step.step = "Core" =>
                 /\ step.title = HighestRowInRange.qualification
                 /\ step.level = HighestRowInRange.level
                 /\ step.type = "course"
                 /\ BaseScaled(16, step.duration_weeks)

\* three levels are in range: Core is level 7 and level 6 is skipped
C12_IntermediateSkipped ==
  /\ RecommendReturned
  /\ Len(RowsInRange) = 3
  /\ Recs[1].pathway[1].level = 5
  /\ Recs[1].pathway[2].step = "Core"
  /\ Recs[1].pathway[2].level = 7

(***************************************************************************)
(* C13: every returned pathway is non-empty and ends with the              *)
(* On-the-job/Internship step, titled '<role title> Internship', of type   *)
(* 'internship' and level 7, whatever the education_level and the          *)
(* catalog levels.                                                         *)
(***************************************************************************)
C13_Suffix == <<" ", "I", "n", "t", "e", "r", "n", "s", "h", "i", "p">>

C13_EndsWithInternship ==
  RecommendReturned =>
    \A r \in 1..Len(Recs) :
      /\ Recs[r].pathway # <<>>
      /\ LET last == Recs[r].pathway[Len(Recs[r].pathway)]
         IN  /\ last.step = "On-the-job/Internship"
             /\ last.title = Recs[r].job_title \o C13_Suffix
             /\ last.type = "internship"
             /\ last.level = 7

\* the learner is above the target and the catalog has no levels at all
C13_AboveTargetNoLevels ==
  /\ RecommendReturned
  /\ GivenLevel = 8
  /\ engine.nsqf_levels = <<>>
  /\ Recs[1].pathway[Len(Recs[1].pathway)].step = "On-the-job/Internship"

(***************************************************************************)
(* C14: the step names of a returned pathway are a subsequence of          *)
(* Foundational, Core, Micro-credential, On-the-job/Internship, without    *)
(* repetition; a Core step has a Foundational step before it.              *)
(***************************************************************************)
StepRank(name) ==
  CASE name = "Foundational"          -> 1
    [] name = "Core"                  -> 2
    [] name = "Micro-credential"      -> 3
    [] name = "On-the-job/Internship" -> 4
    [] OTHER                          -> 0

C14_FixedStepOrder ==
  RecommendReturned =>
    \A r \in 1..Len(Recs) :
      LET pathway == Recs[r].pathway
      IN  /\ \A i \in 1..Len(pathway) : StepRank(pathway[i].step) > 0
          /\ \A i, j \in 1..Len(pathway) :
               i < j => StepRank(pathway[i].step) < StepRank(pathway[j].step)
          /\ \A j \in 1..Len(pathway) :
               pathway[j].step = "Core" =>
                 \E i \in 1..(j - 1) : pathway[i].step = "Foundational"

C14_AllFourSteps ==
  /\ RecommendReturned
  /\ \E r \in 1..Len(Recs) :
       [i \in 1..Len(Recs[r].pathway) |-> Recs[r].pathway[i].step] =
         <<"Foundational", "Core", "Micro-credential", "On-the-job/Internship">>

(***************************************************************************)
(* C15: a call of recommend on an engine, with the profile of an earlier   *)
(* call on that same engine, returns or raises exactly what the earlier    *)
(* call did (same order, titles, scores, explanations and durations),      *)
(* whatever calls the engine has served in between.                        *)
(***************************************************************************)
Repeated ==
  /\ call.op = "recommend"
  /\ earlier.kept
  /\ call.profile = earlier.profile

C15_SameProfileSameResult == Repeated => outcome = earlier.outcome

\* a profile is served again after the engine has served another one
C15_RepeatedAfterOthers ==
  /\ Repeated
  /\ earlier.between
  /\ outcome.status = "returned"
  /\ Len(outcome.value.recommendations) = 3
  /\ outcome.value.recommendations[1].job_title # outcome.value.recommendations[3].job_title

(***************************************************************************)
(* C17: whatever calls of recommend an engine has served, its job_roles    *)
(* and nsqf_levels (rows and their order) are the ones __init__ loaded,    *)
(* it has gained no attribute, and every response is the one the engine    *)
(* as loaded gives for the profile of the call alone: nothing of an        *)
(* earlier learner, such as scaled durations, is retained.                 *)
(***************************************************************************)
C17_CatalogUnchanged ==
  engine.exists =>
    /\ engine.job_roles = built.job_roles
    /\ engine.nsqf_levels = built.nsqf_levels
    /\ DOMAIN engine = DOMAIN built
    /\ call.op = "recommend" =>
         outcome = compute_recommendations(built, call.profile, tie_order)

\* a fast call has scaled its steps on an engine whose levels are loaded
\* out of order
C17_ScaledOnUnsortedLevels ==
  /\ RecommendReturned
  /\ PaceGiven = "fast"
  /\ Len(engine.nsqf_levels) > 1
  /\ engine.nsqf_levels[1].level > engine.nsqf_levels[2].level
  /\ \E r \in 1..Len(Recs) :
       /\ Recs[r].pathway[1].step = "Foundational"
       /\ Recs[r].pathway[1].duration_weeks = 8

(***************************************************************************)
(* C16: under every interleaving of the steps of concurrent calls on one   *)
(* engine, a call that has finished has the result the same call gives     *)
(* when it runs alone on the engine as built, and no step has written to   *)
(* the engine.                                                             *)
(***************************************************************************)
C16_InterleavedAsAlone ==
  /\ engine = built
  /\ \A t \in Threads :
       workers[t].pc = "done" =>
         workers[t].result =
           compute_recommendations(built, workers[t].profile, tie_order)

\* one call has returned while another call, for another profile, is in
\* the middle of its loop
C16_ReturnedWhileOtherInLoop ==
  \E t, u \in Threads :
    /\ t # u
    /\ workers[t].pc = "done"
    /\ workers[t].result.status = "returned"
    /\ workers[u].pc = "build"
    /\ Len(workers[u].recs) = 1
    /\ workers[u].profile # workers[t].profile

(***************************************************************************)
(* C18: the catalog load and model fit are done once per engine lifetime   *)
(* and not once per request: however many requests a run has served        *)
(* through the engine, the module-level function and the handler, the      *)
(* number of loads stays within one per way of serving.                    *)
(***************************************************************************)
WaysOfServing == {"recommend", "function", "handler"}

C18_LoadsDoNotGrowWithRequests == loads <= Cardinality(WaysOfServing)

(***************************************************************************)
(* C19: recommendations of equal match_score are returned in the order in  *)
(* which the neighbour query returned them (the sort is stable), and the   *)
(* neighbour query returns rows of equal distance in catalog order.        *)
(***************************************************************************)
Found == find_neighbours(engine, call.profile, tie_order).value

Unsorted ==
  [p \in 1..Len(Found.indices) |->
     build_recommendation(engine, call.profile, Found.indices[p], Found.distances[p])]

Rearrangements(n) ==
  {f \in [1..n -> 1..n] : \A i, j \in 1..n : i # j => f[i] # f[j]}

\* the result is the query's list, rearranged without exchanging two
\* recommendations of equal match_score
C19_StableOnTies ==
  RecommendReturned =>
    \E f \in Rearrangements(Len(Recs)) :
      /\ \A i \in 1..Len(Recs) : Recs[i] = Unsorted[f[i]]
      /\ \A i, j \in 1..Len(Recs) :
           (i < j /\ Recs[i].match_score = Recs[j].match_score) => f[i] < f[j]

\* the query's list is by ascending distance, then by catalog position
C19_NeighboursInCatalogOrder ==
  RecommendReturned =>
    \A p, q \in 1..Len(Found.indices) :
      p < q =>
        \/ Found.distances[p] < Found.distances[q]
        \/ Found.distances[p] = Found.distances[q] /\ Found.indices[p] < Found.indices[q]

C19_TiesKeepCatalogOrder == C19_StableOnTies /\ C19_NeighboursInCatalogOrder

(***************************************************************************)
(* C20: a call whose learning_pace is absent or is a name other than       *)
(* slow, normal and fast ends as the same call with learning_pace normal   *)
(* does: it raises only if that one raises, and otherwise returns the      *)
(* same recommendations, step durations included.                          *)
(***************************************************************************)
UnknownPace == PaceGiven \notin {"slow", "normal", "fast"}

C20_UnknownPaceAsNormal ==
  (call.op = "recommend" /\ UnknownPace) =>
    LET normal == compute_recommendations(engine, SameProfileAtPace("normal"), tie_order)
    IN  /\ outcome.status = normal.status
        /\ outcome.status = "returned" =>
             outcome.value.recommendations = normal.value.recommendations

\* a call with an unrecognised pace name has returned a pathway with the
\* unscaled Core step
C20_TurboReturned ==
  /\ RecommendReturned
  /\ PaceGiven = "turbo"
  /\ \E r \in 1..Len(Recs) : \E i \in 1..Len(Recs[r].pathway) :
       /\ Recs[r].pathway[i].step = "Core"
       /\ Recs[r].pathway[i].duration_weeks = 16

(***************************************************************************)
(* C21: normalising a list that _normalize_skills has returned gives that  *)
(* list back, so normalize(normalize(s)) = normalize(s) for every s.       *)
(***************************************************************************)
C21_NormalizeIdempotent ==
  (call.op = "normalize" /\ call.again) => outcome.value = call.skills

\* a list that changed under the first normalisation has been normalised
\* a second time
C21_NormalizedTwice ==
  /\ call.op = "normalize"
  /\ call.again
  /\ Len(call.skills) = 2
  /\ call.skills[1] = <<"s", "q", "l">>
  /\ call.skills[2] = <<>>

(***************************************************************************)
(* C22: _normalize_skills returns a list of the same length whose i-th     *)
(* element is the i-th input without its leading and trailing whitespace   *)
(* and with every letter in lower case; [] gives [] and a list holding     *)
(* one empty string gives a list holding one empty string.                 *)
(***************************************************************************)
AllWhitespace(text) == \A k \in 1..Len(text) : text[k] \in Whitespace

\* out is text cut down to its part between the outer whitespace, letter
\* by letter in lower case
IsLoweredCore(text, out) ==
  \E a, b \in 0..Len(text) :
    /\ a + b <= Len(text)
    /\ AllWhitespace(SubSeq(text, 1, a))
    /\ AllWhitespace(SubSeq(text, Len(text) - b + 1, Len(text)))
    /\ Len(out) = Len(text) - a - b
    /\ out # <<>> => (text[a + 1] \notin Whitespace /\ text[Len(text) - b] \notin Whitespace)
    /\ \A k \in 1..Len(out) :
         /\ out[k] = LowerChar(text[a + k])
         /\ out[k] \notin {"P", "Y", "S", "Q", "L", "M"}

SampleCall == call.op = "recommend" /\ call.profile = sample_profile

RankOf(title) == CHOOSE r \in 1..Len(Recs) : Recs[r].job_title = title

StepsNamed(pathway, name) == {i \in 1..Len(pathway) : pathway[i].step = name}

C23_ExampleRanking ==
  SampleCall =>
    /\ outcome.status = "returned"
    /\ \E r \in 1..Len(Recs) : Recs[r].job_title = ExampleDataAnalyst.job_title
    /\ \E r \in 1..Len(Recs) : Recs[r].job_title = ExampleITSupport.job_title
    /\ RankOf(ExampleDataAnalyst.job_title) < RankOf(ExampleITSupport.job_title)
    /\ \A r \in 1..Len(Recs) :
         LET pathway == Recs[r].pathway
         IN  /\ Cardinality(StepsNamed(pathway, "Foundational")) = 1
             /\ \A i \in StepsNamed(pathway, "Foundational") : pathway[i].level \in {5, 6}
             /\ Cardinality(StepsNamed(pathway, "Core")) <= 1
             /\ Cardinality(StepsNamed(pathway, "Micro-credential")) = 1
             /\ Cardinality(StepsNamed(pathway, "On-the-job/Internship")) = 1

\* the sample call has returned the three roles, IT Support last with the
\* score of its demand alone
C23_SampleServed ==
  /\ SampleCall
  /\ outcome.status = "returned"
  /\ Len(Recs) = 3
  /\ Recs[3].job_title = ExampleITSupport.job_title
  /\ Recs[3].match_score = 320
  /\ Recs[1].match_score > 800

(***************************************************************************)
(* C24: a call with usable skills returns, and every returned role has     *)
(* match_score = round(100 * (0.6 * (1 - distance) + 0.4 * demand / 100),  *)
(* 1), where demand is the row's demand_score, or 50 when the row has no   *)
(* demand_score or has NULL in it.                                         *)
(***************************************************************************)
DemandOrDefault(row) ==
  IF "demand_score" \notin DOMAIN row \/ demand_is_null(row) THEN 50 ELSE row["demand_score"]

\* score is in 1/10 of a point, distance in 1/1000: the rounded value is
\* within half a tenth of the exact one
IsRoundedScore(score, distance, demand) ==
  LET exact == 6 * (1000 - distance) + 40 * demand
  IN  10 * score - 5 <= exact /\ exact <= 10 * score + 5

C24_ScoreFormulaWithDefault ==
  (call.op = "recommend" /\ _normalize_skills(GivenSkills) # <<>>) =>
    /\ outcome.status = "returned"
    /\ \A r \in 1..Len(Recs) :
         \E p \in 1..Len(Found.indices) :
           LET row == engine.job_roles[Found.indices[p]]
           IN  /\ row.job_title = Recs[r].job_title
               /\ IsRoundedScore(Recs[r].match_score, Found.distances[p],
                                 DemandOrDefault(row))

\* the same, for calls whose neighbours have no NULL demand_score
C24_ScoreFormulaWithoutNull ==
  (engine.exists /\ \A i \in 1..Len(engine.job_roles) : ~demand_is_null(engine.job_roles[i]))
    => C24_ScoreFormulaWithDefault

(***************************************************************************)
(* C25: along every returned pathway the step levels never decrease: the   *)
(* Foundational level is above the learner's level and at most 7, the      *)
(* Core level is between the Foundational level and 7, and the             *)
(* Micro-credential and Internship steps are at level 7, also for a        *)
(* learner above level 7.                                                  *)
(***************************************************************************)
C25_LevelsNonDecreasing ==
  RecommendReturned =>
    \A r \in 1..Len(Recs) :
      LET pathway == Recs[r].pathway
      IN  /\ \A i, j \in 1..Len(pathway) : i < j => pathway[i].level <= pathway[j].level
          /\ \A i \in 1..Len(pathway) :
               /\ pathway[i].step = "Foundational" =>
                    (GivenLevel < pathway[i].level /\ pathway[i].level <= 7)
               /\ pathway[i].step = "Core" =>
                    /\ pathway[i].level <= 7
                    /\ \A j \in 1..Len(pathway) :
                         pathway[j].step = "Foundational" =>
                           pathway[j].level <= pathway[i].level
               /\ pathway[i].step \in {"Micro-credential", "On-the-job/Internship"} =>
                    pathway[i].level = 7

\* a learner at level 8 gets only steps at level 7, from a catalog that
\* has a level 8
C25_AboveTargetStillSeven ==
  /\ RecommendReturned
  /\ GivenLevel = 8
  /\ \E i \in 1..Len(engine.nsqf_levels) : engine.nsqf_levels[i].level = 8
  /\ \A i \in 1..Len(Recs[1].pathway) : Recs[1].pathway[i].level = 7

(***************************************************************************)
(* C26: a row is added to the recommendations table only by a /recommend   *)
(* request that carried the profile_id of an existing profile and whose    *)
(* recommendation set was computed; the row holds that set.  Calls of the  *)
(* engine or of the module-level function, requests answered with 404 or   *)
(* 400, requests whose recommender raised and requests with only an        *)
(* inline profile leave the table as it is.                                *)
(***************************************************************************)
C26_SnapshotOnlyForStoredProfile ==
  [][ snapshots' # snapshots =>
        /\ call'.op = "handler"
        /\ HasProfileId(call'.request)
        /\ get_profile(call'.request["profile_id"]).found
        /\ outcome'.status = "returned"
        /\ Len(outcome'.value.recommendations.recommendations) = n_neighbors
        /\ outcome'.value.recommendation_id = Len(snapshots')
        /\ snapshots' = Append(snapshots,
                               [id |-> Len(snapshots) + 1,
                                profile_id |-> call'.request["profile_id"],
                                recommendations |-> outcome'.value.recommendations]) ]_vars

\* a request with an inline profile has been answered after an earlier
\* request had stored a snapshot: the table still has that one row
C26_InlineAfterStored ==
  /\ call.op = "handler"
  /\ ~HasProfileId(call.request)
  /\ outcome.status = "returned"
  /\ outcome.value.recommendation_id = NoId
  /\ Len(snapshots) = 1
  /\ snapshots[1].profile_id = 1

(***************************************************************************)
(* C29: every item returned by _parse_ai_response has an item_type of      *)
(* VALID_ITEM_TYPES and an estimated_duration in 5..240, the input value   *)
(* clamped; the items returned are, in the input's order, exactly the      *)
(* input items that have every required field and a valid item_type.       *)
(***************************************************************************)
C29_Kept(item) ==
  /\ required_fields \subseteq DOMAIN item
  /\ item["item_type"] \in VALID_ITEM_TYPES

C29_KeptIndexes(items) == { i \in 1..Len(items) : C29_Kept(items[i]) }

C29_Clamped(n) == IF n < 5 THEN 5 ELSE IF n > 240 THEN 240 ELSE n

C29_ParsedItemsValid ==
  (call # Idle /\ call.op = "parse" /\ outcome.status = "returned") =>
    LET input == call.content.array
        output == outcome.value
        kept == C29_KeptIndexes(input)
    IN  /\ \A k \in 1..Len(output) :
             /\ output[k].item_type \in VALID_ITEM_TYPES
             /\ output[k].estimated_duration \in 5..240
        /\ Len(output) = Cardinality(kept)
        /\ \A k \in 1..Len(output) :
             \E i \in kept :
               /\ Cardinality({ j \in kept : j < i }) = k - 1
               /\ output[k].item_type = input[i]["item_type"]
               /\ output[k].order = input[i]["order"].number
               /\ output[k].estimated_duration =
                    C29_Clamped(input[i]["estimated_duration"].number)

C29_ClampedAndSkipped ==
  /\ call # Idle /\ call.op = "parse" /\ outcome.status = "returned"
  /\ Len(call.content.array) = 2
  /\ Len(outcome.value) = 1
  /\ call.content.array[1]["item_type"] = "quiz"
  /\ call.content.array[2]["estimated_duration"] = [number |-> 241]
  /\ outcome.value[1].estimated_duration = 240

(***************************************************************************)
(* C27: generate_learning_path_recommendations with a valid topic always   *)
(* returns a path of at least one item; when the AI call raises, its       *)
(* answer cannot be parsed or no item of the answer is valid, the path     *)
(* returned is the default one: exactly one item, a course of 120 minutes  *)
(* with order 0.                                                           *)
(***************************************************************************)
C27_ValidTopic(topic) ==
  \E i, j \in 1..Len(topic) :
    i < j /\ topic[i] \notin Whitespace /\ topic[j] \notin Whitespace

C27_AiStepFails(ai) ==
  \/ "raises" \in DOMAIN ai
  \/ "array" \notin DOMAIN ai.content
  \/ C29_KeptIndexes(ai.content.array) = {}
  \/ \E i \in C29_KeptIndexes(ai.content.array) :
       \/ "number" \notin DOMAIN ai.content.array[i]["estimated_duration"]
       \/ "number" \notin DOMAIN ai.content.array[i]["order"]

C27_IsDefaultPath(path) ==
  /\ Len(path.items) = 1
  /\ path.items[1].item_type = "course"
  /\ path.items[1].estimated_duration = 120
  /\ path.items[1].order = 0

C27_AiNeverFailsTheCall ==
  (call.op = "generate_recommendations" /\ C27_ValidTopic(call.topic)) =>
    /\ outcome.status = "returned"
    /\ Len(outcome.value.items) >= 1
    /\ C27_AiStepFails(call.ai) => C27_IsDefaultPath(outcome.value)
    /\ ~C27_AiStepFails(call.ai) =>
         Len(outcome.value.items) = Cardinality(C29_KeptIndexes(call.ai.content.array))

C27_DefaultAfterNoValidItem ==
  /\ call.op = "generate_recommendations"
  /\ C27_ValidTopic(call.topic)
  /\ "content" \in DOMAIN call.ai
  /\ "array" \in DOMAIN call.ai.content
  /\ Len(call.ai.content.array) = 2
  /\ C29_KeptIndexes(call.ai.content.array) = {}
  /\ outcome.status = "returned"
  /\ C27_IsDefaultPath(outcome.value)

(***************************************************************************)
(* C28: a call of POST /generate whose topic is empty or has fewer than 2  *)
(* non-blank characters is answered with status 400 and stores no learning *)
(* path and no item; a call with a valid topic succeeds whatever the       *)
(* current_level is, an unknown level counting as 'beginner'.              *)
(***************************************************************************)
C28_ExpectedLevel(current_level) ==
  IF current_level = <<"A", "d", "v", "a", "n", "c", "e", "d">> THEN <<"a", "d", "v", "a", "n", "c", "e", "d">> ELSE <<"b", "e", "g", "i", "n", "n", "e", "r">>

C28_Endpoint(status) ==
      call'.op = "generate" /\ call.op = "idle" =>
        IF C27_ValidTopic(call'.topic)
        THEN /\ outcome'.status = "returned"
             /\ Len(paths') = Len(paths) + 1
             /\ \E i \in 1..Len(call'.topic), j \in 1..Len(call'.topic) :
                  /\ i < j
                  /\ outcome'.value.description =
                       TxtPersonalized \o SubSeq(call'.topic, i, j) \o TxtAt
                         \o C28_ExpectedLevel(call'.current_level) \o TxtLevel
        ELSE /\ outcome' = Raised(status)
             /\ paths' = paths
             /\ path_items' = path_items

C28_InvalidTopicIs400 == [][C28_Endpoint("HTTP_400_BAD_REQUEST")]_vars

C28_InvalidTopicIs500 == [][C28_Endpoint("HTTP_500_INTERNAL_SERVER_ERROR")]_vars

C28_ServiceRaises400 ==
  (call.op = "generate_recommendations" /\ ~C27_ValidTopic(call.topic)) =>
    outcome = Raised("HTTP_400_BAD_REQUEST")

C28_InvalidValuesDefault ==
  (call.op = "validate" /\ C27_ValidTopic(call.topic)) =>
    /\ outcome.status = "returned"
    /\ outcome.value.current_level = C28_ExpectedLevel(call.current_level)
    /\ outcome.value.time_commitment =
         IF call.time_commitment = <<"L", "o", "w">> THEN <<"l", "o", "w">> ELSE <<"m", "e", "d", "i", "u", "m">>

(***************************************************************************)
(* C30: a read, update, delete or add-item call of user U on path id P     *)
(* succeeds only when the stored path P belongs to U, and then touches     *)
(* only path P and its items; otherwise it is answered with 404 and no     *)
(* stored path and no stored item changes.                                 *)
(***************************************************************************)
C30_Operations == {"read", "update", "delete", "add_item"}

C30_Rows(table) == { table[i] : i \in 1..Len(table) }

C30_Owns(user, path_id) ==
  \E row \in C30_Rows(paths) : row.id = path_id /\ row.user_id = user

C30_OthersUntouched(path_id) ==
  /\ { row \in C30_Rows(paths) : row.id # path_id }
       = { row \in C30_Rows(paths') : row.id # path_id }
  /\ { row \in C30_Rows(path_items) : row.learning_path_id # path_id }
       = { row \in C30_Rows(path_items') : row.learning_path_id # path_id }

C30_Effect(op, user, path_id) ==
  LET before == CHOOSE row \in C30_Rows(paths) : row.id = path_id
  IN  CASE op = "read" ->
             /\ outcome'.value = before
             /\ paths' = paths /\ path_items' = path_items
        [] op = "update" ->
             /\ outcome'.value.id = path_id
             /\ outcome'.value.user_id = user
             /\ outcome'.value \in C30_Rows(paths')
             /\ "title" \in DOMAIN call'.update =>
                  outcome'.value.title = call'.update["title"]
             /\ "title" \notin DOMAIN call'.update => outcome'.value = before
             /\ path_items' = path_items
        [] op = "delete" ->
             /\ \A row \in C30_Rows(paths') : row.id # path_id
             /\ \A row \in C30_Rows(path_items') : row.learning_path_id # path_id
        [] op = "add_item" ->
             /\ paths' = paths
             /\ Len(path_items') = Len(path_items) + 1
             /\ SubSeq(path_items', 1, Len(path_items)) = path_items
             /\ path_items'[Len(path_items')].learning_path_id = path_id
             /\ outcome'.value = path_items'[Len(path_items')]

C30_OwnerIsolation ==
  [][ (call.op = "idle" /\ call'.op \in C30_Operations) =>
        IF C30_Owns(call'.user, call'.path_id)
        THEN /\ outcome'.status = "returned"
             /\ C30_OthersUntouched(call'.path_id)
             /\ C30_Effect(call'.op, call'.user, call'.path_id)
        ELSE /\ outcome' = Raised("HTTP_404_NOT_FOUND")
             /\ paths' = paths
             /\ path_items' = path_items ]_vars

C30_ForeignPathRefused ==
  /\ call.op = "delete"
  /\ outcome = Raised("HTTP_404_NOT_FOUND")
  /\ \E row \in C30_Rows(paths) : row.id = call.path_id /\ row.user_id # call.user
  /\ \E row \in C30_Rows(path_items) : row.learning_path_id = call.path_id

====
